---- MODULE Spec2Model ----
(***************************************************************************)
(* Model of the LoreKeeper timeline store (lorekeeper/timeline_manager.py, *)
(* lorekeeper/timeline_compaction.py, lorekeeper/event_schema.py) and of   *)
(* the structures of lorekeeper/indexing (bptree.py, skiplist.py,          *)
(* tagdict.py, semantic_cache.py).                                         *)
(*                                                                         *)
(* Encodings.                                                              *)
(*  - An ISO date string is an integer: "YYYY-MM-DD" is YYYYMMDD0 and the  *)
(*    timestamp "YYYY-MM-DDT10:00:00" of the same day is YYYYMMDD1.  The   *)
(*    lexicographic order of such strings is the order of the integers,    *)
(*    and datetime.fromisoformat(s).year is the integer divided by 100000. *)
(*    The empty string, which fromisoformat rejects, is 0.                 *)
(*  - Event ids are uuid4 strings (event_schema.py:11): every event object *)
(*    gets an id no other event has; which of two ids is the smaller       *)
(*    string is arbitrary, so a new id is any unused member of Ids and the *)
(*    string order of ids is the order of the integers.                    *)
(*  - sha256 is taken to be injective: the ingestion hash is the           *)
(*    "|"-joined payload string it is computed from.                       *)
(*  - A JSON shard file is a record [exists, data]; data is the array.     *)
(***************************************************************************)
EXTENDS Integers, Sequences, FiniteSets, TLC

(***************************************************************************)
(* Bounds                                                                  *)
(***************************************************************************)
MaxEvents == 2

Ids == 1 .. MaxEvents

(***************************************************************************)
(* Input domains                                                           *)
(***************************************************************************)
\* the string "YYYY-MM-DD"
Day(yyyymmdd) == yyyymmdd * 10

\* the string "YYYY-MM-DDT10:00:00", as datetime.isoformat() gives
Timed(yyyymmdd) == yyyymmdd * 10 + 1

Dates == {Day(20241231), Day(20250201), Day(20250207)}

\* further dates given to the period queries: the day before the seven-day
\* window of 2025-02-07, and a time on its last day, written as
\* datetime.utcnow().isoformat() writes it
PeriodDates == {Day(20250131), Timed(20250207)}

Titles == {"Old", "New"}

Types == {"note"}

DetailsSet == {"info"}

TagNames == {"BJJ", "bjj", "holiday"}

CharacterIds == {"c1"}

Profiles ==
  { [tags |-> <<>>, source |-> "", metadata |-> <<"c1">>],
    [tags |-> <<"BJJ", "holiday">>, source |-> "user_entry", metadata |-> <<>>] }

\* event_schema.py: the fields of a TimelineEvent (metadata is modelled by
\* its "characters" list, the only part of it the store reads)
TimelineEvent(id, date, title, type, details, tags, source, archived, metadata) ==
  [id |-> id, date |-> date, title |-> title, type |-> type,
   details |-> details, tags |-> tags, source |-> source,
   archived |-> archived, metadata |-> metadata]

EventInputs ==
  { TimelineEvent(0, d, t, ty, de, p.tags, p.source, FALSE, p.metadata) :
      d \in Dates, t \in Titles, ty \in Types, de \in DetailsSet, p \in Profiles }

None == [id |-> 0]

\* the outcome of a call that raised ValueError
Raised == [id |-> -1]

\* an event left with the dataclass default date "", which
\* datetime.fromisoformat rejects
MalformedInputs ==
  { TimelineEvent(0, 0, "Old", "note", "info", <<>>, "user_entry", FALSE, <<>>) }

(***************************************************************************)
(* Pure helpers                                                            *)
(***************************************************************************)
\* datetime.fromisoformat(date).year
YearOf(date) == date \div 100000

\* datetime.fromisoformat(date) does not raise
Parsable(date) == date # 0

Years == { YearOf(d) : d \in Dates }

\* str.lower()
Lower(tag) == IF tag = "BJJ" THEN "bjj" ELSE tag

LowerTags == { Lower(t) : t \in TagNames }

Range(s) == { s[i] : i \in 1 .. Len(s) }

\* list.insert(position, x), position counted from 0; a position past the
\* end appends
InsertAt(s, position, x) ==
  LET at == IF position > Len(s) THEN Len(s) ELSE position
  IN  SubSeq(s, 1, at) \o <<x>> \o SubSeq(s, at + 1, Len(s))

\* s[from:to] of a Python list
Slice(s, from, to) ==
  LET lo == IF from > Len(s) THEN Len(s) ELSE from
      hi == IF to > Len(s) THEN Len(s) ELSE to
  IN  IF lo >= hi THEN <<>> ELSE SubSeq(s, lo + 1, hi)

\* bisect.bisect_right(a, x): binary search, as in the standard library
RECURSIVE BisectRightFrom(_, _, _, _)
BisectRightFrom(a, x, lo, hi) ==
  IF lo < hi
    THEN LET mid == (lo + hi) \div 2
         IN  IF x < a[mid + 1]
               THEN BisectRightFrom(a, x, lo, mid)
               ELSE BisectRightFrom(a, x, mid + 1, hi)
    ELSE lo

bisect_right(a, x) == BisectRightFrom(a, x, 0, Len(a))

\* bisect.bisect_left(a, x)
RECURSIVE BisectLeftFrom(_, _, _, _)
BisectLeftFrom(a, x, lo, hi) ==
  IF lo < hi
    THEN LET mid == (lo + hi) \div 2
         IN  IF a[mid + 1] < x
               THEN BisectLeftFrom(a, x, mid + 1, hi)
               ELSE BisectLeftFrom(a, x, lo, mid)
    ELSE lo

bisect_left(a, x) == BisectLeftFrom(a, x, 0, Len(a))

\* TimelineManager._compute_ingestion_hash
_compute_ingestion_hash(event) ==
  ToString(event.date) \o "|" \o event.title \o "|" \o event.type
    \o "|" \o event.details

\* dataclasses.asdict(event) followed by json.dumps / json.loads
asdict(event) ==
  [id |-> event.id, date |-> event.date, title |-> event.title,
   type |-> event.type, details |-> event.details, tags |-> event.tags,
   source |-> event.source, archived |-> event.archived,
   metadata |-> event.metadata]

\* TimelineEvent(**item)
FromItem(item) ==
  TimelineEvent(item.id, item.date, item.title, item.type, item.details,
                item.tags, item.source, item.archived, item.metadata)

(***************************************************************************)
(* The in-memory indexes of one TimelineManager, as a record               *)
(***************************************************************************)
\* TimelineManager.__init__: the empty indexes
EmptyMem ==
  [events_by_id |-> <<>>,
   sorted_event_ids |-> <<>>,
   sorted_dates |-> <<>>,
   year_index |-> [y \in Years |-> <<>>],
   year_dates |-> [y \in Years |-> <<>>],
   index_by_date |-> [d \in Dates \cup PeriodDates |-> <<>>],
   index_by_tag |-> [t \in LowerTags |-> <<>>],
   index_by_type |-> [t \in Types |-> <<>>],
   index_by_character |-> [c \in CharacterIds |-> <<>>],
   index_by_hash |-> <<>>]

\* _insert_sorted_event placing an event before the events of its date
_insert_sorted_event_Left(M, event) ==
  LET position == bisect_left(M.sorted_dates, event.date)
      event_year == YearOf(event.date)
      year_pos == bisect_left(M.year_dates[event_year], event.date)
  IN  [M EXCEPT
         !.sorted_dates = InsertAt(@, position, event.date),
         !.sorted_event_ids = InsertAt(@, position, event.id),
         !.year_dates[event_year] = InsertAt(@, year_pos, event.date),
         !.year_index[event_year] = InsertAt(@, year_pos, event.id)]

\* TimelineManager._insert_sorted_event
_insert_sorted_event(M, event) ==
  LET position == bisect_right(M.sorted_dates, event.date)
      event_year == YearOf(event.date)
      year_pos == bisect_right(M.year_dates[event_year], event.date)
  IN  [M EXCEPT
         !.sorted_dates = InsertAt(@, position, event.date),
         !.sorted_event_ids = InsertAt(@, position, event.id),
         !.year_dates[event_year] = InsertAt(@, year_pos, event.date),
         !.year_index[event_year] = InsertAt(@, year_pos, event.id)]

\* for tag in event.tags: index_by_tag[tag.lower()].append(event.id)
RECURSIVE AppendForEach(_, _, _)
AppendForEach(index, keys, id) ==
  IF keys = <<>>
    THEN index
    ELSE AppendForEach([index EXCEPT ![Head(keys)] = Append(@, id)],
                       Tail(keys), id)

LowerAll(tags) == [i \in 1 .. Len(tags) |-> Lower(tags[i])]

\* _index_event filing the event under its tags as written, not lower-cased
\* (a tag that is not lower case lands in a bucket no query reads)
_index_event_NoLower(M, event) ==
  IF event.id \in DOMAIN M.events_by_id
    THEN M
    ELSE LET M1 == [M EXCEPT !.events_by_id = (event.id :> event) @@ @]
             M2 == _insert_sorted_event(M1, event)
             ingestion_hash == _compute_ingestion_hash(event)
             as_written == SelectSeq(event.tags, LAMBDA t : t \in DOMAIN M.index_by_tag)
         IN  [M2 EXCEPT
                !.index_by_date[event.date] = Append(@, event.id),
                !.index_by_type =
                   IF event.type # ""
                     THEN [@ EXCEPT ![event.type] = Append(@, event.id)]
                     ELSE @,
                !.index_by_tag = AppendForEach(@, as_written, event.id),
                !.index_by_character = AppendForEach(@, event.metadata, event.id),
                !.index_by_hash =
                   IF ingestion_hash \in DOMAIN @
                     THEN @
                     ELSE (ingestion_hash :> event.id) @@ @]

\* TimelineManager._index_event
_index_event(M, event) ==
  IF event.id \in DOMAIN M.events_by_id
    THEN M
    ELSE LET M1 == [M EXCEPT !.events_by_id = (event.id :> event) @@ @]
             M2 == _insert_sorted_event(M1, event)
             ingestion_hash == _compute_ingestion_hash(event)
         IN  [M2 EXCEPT
                !.index_by_date[event.date] = Append(@, event.id),
                !.index_by_type =
                   IF event.type # ""
                     THEN [@ EXCEPT ![event.type] = Append(@, event.id)]
                     ELSE @,
                !.index_by_tag = AppendForEach(@, LowerAll(event.tags), event.id),
                !.index_by_character = AppendForEach(@, event.metadata, event.id),
                !.index_by_hash =
                   IF ingestion_hash \in DOMAIN @
                     THEN @
                     ELSE (ingestion_hash :> event.id) @@ @]

(***************************************************************************)
(* The shard files of the base directory, as a record [raw, compact]       *)
(***************************************************************************)
NoFile == [exists |-> FALSE, data |-> <<>>]

File(data) == [exists |-> TRUE, data |-> data]

EmptyDisk == [raw |-> [y \in Years |-> NoFile], compact |-> [y \in Years |-> NoFile]]

\* TimelineManager._load_raw_year: the compacted file is preferred; a missing
\* year file is created holding "[]"
_load_raw_year(D, year) ==
  IF D.compact[year].exists
    THEN [disk |-> D, events |-> D.compact[year].data]
    ELSE IF ~D.raw[year].exists
           THEN [disk |-> [D EXCEPT !.raw[year] = File(<<>>)], events |-> <<>>]
           ELSE [disk |-> D, events |-> D.raw[year].data]

\* TimelineManager._save_year: always writes {year}.json
_save_year(D, year, events) == [D EXCEPT !.raw[year] = File(events)]

\* TimelineManager.load_year
load_year(D, year) ==
  LET loaded == _load_raw_year(D, year)
  IN  [disk |-> loaded.disk,
       events |-> [i \in 1 .. Len(loaded.events) |-> FromItem(loaded.events[i])]]

\* base_path.glob("*.json"), reduced to the years the names start with
GlobYears(D) == { y \in Years : D.raw[y].exists \/ D.compact[y].exists }

(***************************************************************************)
(* Operations, as functions of the store S = [mem, disk, period_cache,     *)
(* memo].  memo is this instance's share of the functools.lru_cache that   *)
(* wraps _get_events_for_period (maxsize 1024 is never reached here).      *)
(***************************************************************************)
EmptyCache == <<>>

\* TimelineManager._invalidate_cache
_invalidate_cache(S) == [S EXCEPT !.period_cache = EmptyCache, !.memo = EmptyCache]

\* add_event that leaves the caches as they are
add_event_NoInvalidate(S, event) ==
  LET ingestion_hash == _compute_ingestion_hash(event)
  IN  IF ingestion_hash \in DOMAIN S.mem.index_by_hash
        THEN [store |-> S,
              ret |-> S.mem.events_by_id[S.mem.index_by_hash[ingestion_hash]]]
        ELSE IF ~Parsable(event.date)
        THEN [store |-> S, ret |-> Raised]
        ELSE LET event_year == YearOf(event.date)
                 loaded == _load_raw_year(S.disk, event_year)
                 events == Append(loaded.events, asdict(event))
             IN  [store |-> [S EXCEPT
                               !.disk = _save_year(loaded.disk, event_year, events),
                               !.mem = _index_event(S.mem, event)],
                  ret |-> event]

\* add_event without the lookup in index_by_hash
add_event_NoDedup(S, event) ==
  IF ~Parsable(event.date)
    THEN [store |-> S, ret |-> Raised]
    ELSE LET event_year == YearOf(event.date)
             loaded == _load_raw_year(S.disk, event_year)
             events == Append(loaded.events, asdict(event))
             S1 == [S EXCEPT !.disk = _save_year(loaded.disk, event_year, events),
                             !.mem = _index_event(S.mem, event)]
         IN  [store |-> _invalidate_cache(S1), ret |-> event]

\* add_event recording the ingestion hash before it parses the date
add_event_HashFirst(S, event) ==
  LET ingestion_hash == _compute_ingestion_hash(event)
  IN  IF ingestion_hash \in DOMAIN S.mem.index_by_hash
        THEN [store |-> S,
              ret |-> S.mem.events_by_id[S.mem.index_by_hash[ingestion_hash]]]
        ELSE IF ~Parsable(event.date)
        THEN [store |-> [S EXCEPT !.mem.index_by_hash =
                                     (ingestion_hash :> event.id) @@ @],
              ret |-> Raised]
        ELSE LET event_year == YearOf(event.date)
                 loaded == _load_raw_year(S.disk, event_year)
                 events == Append(loaded.events, asdict(event))
                 S1 == [S EXCEPT !.disk = _save_year(loaded.disk, event_year, events),
                                 !.mem = _index_event(S.mem, event)]
             IN  [store |-> _invalidate_cache(S1), ret |-> event]

\* add_event returning the event it was given when the hash is already known
add_event_ReturnsArgument(S, event) ==
  LET ingestion_hash == _compute_ingestion_hash(event)
  IN  IF ingestion_hash \in DOMAIN S.mem.index_by_hash
        THEN [store |-> S, ret |-> event]
        ELSE IF ~Parsable(event.date)
        THEN [store |-> S, ret |-> Raised]
        ELSE LET event_year == YearOf(event.date)
                 loaded == _load_raw_year(S.disk, event_year)
                 events == Append(loaded.events, asdict(event))
                 S1 == [S EXCEPT !.disk = _save_year(loaded.disk, event_year, events),
                                 !.mem = _index_event(S.mem, event)]
             IN  [store |-> _invalidate_cache(S1), ret |-> event]

\* TimelineManager.add_event; the result carries the returned event in ret
\* (ids are non-empty strings, so "if existing_id" is membership in the map)
add_event(S, event) ==
  LET ingestion_hash == _compute_ingestion_hash(event)
  IN  IF ingestion_hash \in DOMAIN S.mem.index_by_hash
        THEN [store |-> S,
              ret |-> S.mem.events_by_id[S.mem.index_by_hash[ingestion_hash]]]
        ELSE IF ~Parsable(event.date)
        THEN [store |-> S, ret |-> Raised]
        ELSE LET event_year == YearOf(event.date)
                 loaded == _load_raw_year(S.disk, event_year)
                 events == Append(loaded.events, asdict(event))
                 S1 == [S EXCEPT !.disk = _save_year(loaded.disk, event_year, events),
                                 !.mem = _index_event(S.mem, event)]
             IN  [store |-> _invalidate_cache(S1), ret |-> event]

\* the items of a shard with every record of event_id marked archived
MarkArchived(events, event_id) ==
  [i \in 1 .. Len(events) |->
     IF events[i].id = event_id
       THEN [events[i] EXCEPT !.archived = TRUE]
       ELSE events[i]]

\* the years whose loaded shard holds a record of event_id
ArchiveHits(D, event_id) ==
  { y \in GlobYears(D) :
      \E i \in 1 .. Len(_load_raw_year(D, y).events) :
         _load_raw_year(D, y).events[i].id = event_id }

\* archive_event updating the in-memory record without rewriting the shard
archive_event_in_NoSave(S, event_id, year) ==
  LET events == _load_raw_year(S.disk, year).events
      updated == MarkArchived(events, event_id)
      last == CHOOSE i \in 1 .. Len(updated) : updated[i].id = event_id
      archived_event == FromItem(updated[last])
      S1 == [S EXCEPT !.mem.events_by_id = (event_id :> archived_event) @@ @]
  IN  [store |-> _invalidate_cache(S1), ret |-> archived_event]

\* TimelineManager.archive_event, year being the first shard in glob order
\* that holds event_id (glob order is unspecified)
archive_event_in(S, event_id, year) ==
  LET events == _load_raw_year(S.disk, year).events
      updated == MarkArchived(events, event_id)
      last == CHOOSE i \in 1 .. Len(updated) :
                 /\ updated[i].id = event_id
                 /\ \A j \in (i + 1) .. Len(updated) : updated[j].id # event_id
      archived_event == FromItem(updated[last])
      S1 == [S EXCEPT !.disk = _save_year(S.disk, year, updated),
                      !.mem.events_by_id = (event_id :> archived_event) @@ @]
  IN  [store |-> _invalidate_cache(S1), ret |-> archived_event]

\* TimelineManager.archive_event: every outcome the glob order allows
archive_event(S, event_id) ==
  IF ArchiveHits(S.disk, event_id) = {}
    THEN { [store |-> S, ret |-> None] }
    ELSE { archive_event_in(S, event_id, y) : y \in ArchiveHits(S.disk, event_id) }

\* correct_event overwriting the original's record with the replacement
correct_event_after_InPlace(archived, corrected_event) ==
  IF archived.ret = None
    THEN [store |-> archived.store, ret |-> None]
    ELSE LET replaced == [corrected_event EXCEPT !.id = archived.ret.id]
         IN  [store |-> [archived.store EXCEPT
                           !.mem.events_by_id = (archived.ret.id :> replaced) @@ @],
              ret |-> replaced]

\* correct_event appending the replacement whatever archive_event returned
correct_event_after_NoCheck(archived, corrected_event) ==
  LET added == add_event(archived.store, corrected_event)
  IN  [store |-> added.store,
       ret |-> IF added.ret = Raised THEN Raised
               ELSE IF archived.ret = None THEN None ELSE corrected_event]

\* TimelineManager.correct_event, after archive_event gave the result archived
correct_event_after(archived, corrected_event) ==
  IF archived.ret = None
    THEN [store |-> archived.store, ret |-> None]
    ELSE LET corrected ==
               IF corrected_event.source = ""
                 THEN TimelineEvent(corrected_event.id, corrected_event.date,
                                    corrected_event.title, corrected_event.type,
                                    corrected_event.details, corrected_event.tags,
                                    "correction", corrected_event.archived, <<>>)
                 ELSE corrected_event
             added == add_event(archived.store, corrected)
         IN  [store |-> added.store,
              ret |-> IF added.ret = Raised THEN Raised ELSE corrected]

\* TimelineManager.correct_event
correct_event(S, event_id, corrected_event) ==
  { correct_event_after(a, corrected_event) : a \in archive_event(S, event_id) }

\* indexes every event of a list in order
RECURSIVE IndexAll(_, _)
IndexAll(M, events) ==
  IF events = <<>> THEN M ELSE IndexAll(_index_event(M, Head(events)), Tail(events))

\* the loop of _bootstrap_from_disk over sorted(year_candidates)
RECURSIVE BootstrapYears(_, _, _)
BootstrapYears(M, D, years) ==
  IF years = {}
    THEN M
    ELSE LET year == CHOOSE y \in years : \A z \in years : y <= z
         IN  BootstrapYears(IndexAll(M, load_year(D, year).events), D,
                            years \ {year})

\* TimelineManager._bootstrap_from_disk, from the empty indexes of __init__
_bootstrap_from_disk(D) == BootstrapYears(EmptyMem, D, GlobYears(D))

\* a new TimelineManager over the directory
NewManager(D) ==
  [mem |-> _bootstrap_from_disk(D), disk |-> D,
   period_cache |-> EmptyCache, memo |-> EmptyCache]

(***************************************************************************)
(* Compaction                                                              *)
(***************************************************************************)
\* the key of compact_year's sort: (e.date, e.id)
KeyLeq(a, b) == a.date < b.date \/ (a.date = b.date /\ a.id <= b.id)

\* sorted(events, key=...): a stable sort, here by insertion
RECURSIVE SortedByKey(_)
SortedByKey(events) ==
  IF events = <<>>
    THEN <<>>
    ELSE LET n == Len(events)
             front == SortedByKey(SubSeq(events, 1, n - 1))
             x == events[n]
             k == Cardinality({ i \in 1 .. Len(front) : KeyLeq(front[i], x) })
         IN  InsertAt(front, k, x)

\* timeline_compaction.compact_year
compact_year(D, year) ==
  LET loaded == load_year(D, year)
      ordered == SortedByKey(loaded.events)
  IN  [loaded.disk EXCEPT
         !.compact[year] = File([i \in 1 .. Len(ordered) |-> asdict(ordered[i])])]

\* timeline_compaction.compact_outdated_shards, threshold_year being the year
\* of utcnow().date() - horizon_days
RECURSIVE CompactYears(_, _)
CompactYears(D, years) ==
  IF years = {}
    THEN D
    ELSE LET year == CHOOSE y \in years : TRUE
         IN  CompactYears(compact_year(D, year), years \ {year})

compact_outdated_shards(D, threshold_year) ==
  CompactYears(D, { y \in GlobYears(D) : threshold_year > y })

(***************************************************************************)
(* Queries                                                                 *)
(***************************************************************************)
\* an omitted (None) or empty argument of get_events
NoArg == 0

\* [self.events_by_id[eid] for eid in ids]
EventsOf(M, ids) == [i \in 1 .. Len(ids) |-> M.events_by_id[ids[i]]]

\* get_events_between with the end of the slice found by bisect_left
get_events_between_EndLeft(M, start, end) ==
  LET start_idx == bisect_left(M.sorted_dates, start)
      end_idx == bisect_left(M.sorted_dates, end)
  IN  EventsOf(M, Slice(M.sorted_event_ids, start_idx, end_idx))

\* TimelineManager.get_events_between
get_events_between(M, start, end) ==
  LET start_idx == bisect_left(M.sorted_dates, start)
      end_idx == bisect_right(M.sorted_dates, end)
  IN  EventsOf(M, Slice(M.sorted_event_ids, start_idx, end_idx))

\* TimelineManager.get_events
get_events(M, year, start_date, end_date, tags, include_archived) ==
  LET lowered == LowerAll(tags)
      candidates ==
        IF start_date # NoArg \/ end_date # NoArg
          THEN get_events_between(M,
                 IF start_date # NoArg THEN start_date ELSE Day(101),
                 IF end_date # NoArg THEN end_date ELSE Day(99991231))
          ELSE IF year # NoArg
                 THEN EventsOf(M, IF year \in DOMAIN M.year_index
                                    THEN M.year_index[year] ELSE <<>>)
                 ELSE EventsOf(M, M.sorted_event_ids)
      allowed_ids ==
        UNION { IF lowered[i] \in DOMAIN M.index_by_tag
                  THEN Range(M.index_by_tag[lowered[i]]) ELSE {} :
                i \in 1 .. Len(lowered) }
      in_range(event) ==
        /\ ~(~include_archived /\ event.archived)
        /\ ~(lowered # <<>> /\ event.id \notin allowed_ids)
        /\ ~(start_date # NoArg /\ event.date < start_date)
        /\ ~(end_date # NoArg /\ event.date > end_date)
  IN  SelectSeq(candidates, in_range)

\* the body of TimelineManager._get_events_for_period (without the lru_cache)
PeriodIds(M, start, end, include_archived) ==
  LET events == get_events_between(M, start, end)
      ids == [i \in 1 .. Len(events) |-> events[i].id]
      live(id) == ~M.events_by_id[id].archived
  IN  IF include_archived THEN ids ELSE SelectSeq(ids, live)

\* TimelineManager._get_events_for_period under functools.lru_cache
_get_events_for_period(S, start, end, include_archived) ==
  LET key == <<start, end, include_archived>>
  IN  IF key \in DOMAIN S.memo
        THEN [store |-> S, ids |-> S.memo[key]]
        ELSE LET ids == PeriodIds(S.mem, start, end, include_archived)
             IN  [store |-> [S EXCEPT !.memo = (key :> ids) @@ @], ids |-> ids]

(***************************************************************************)
(* datetime.date values are day numbers counted from 1970-01-01            *)
(***************************************************************************)
\* date.isoformat(): the civil date of a day number, as "YYYY-MM-DD"
IsoFormat(day) ==
  LET z == day + 719468
      era == z \div 146097
      doe == z - era * 146097
      yoe == (doe - doe \div 1460 + doe \div 36524 - doe \div 146096) \div 365
      doy == doe - (365 * yoe + yoe \div 4 - yoe \div 100)
      mp == (5 * doy + 2) \div 153
      d == doy - (153 * mp + 2) \div 5 + 1
      m == IF mp < 10 THEN mp + 3 ELSE mp - 9
      y == yoe + era * 400 + (IF m <= 2 THEN 1 ELSE 0)
  IN  Day(y * 10000 + m * 100 + d)

Periods == {"last_7_days", "last_30_days", "last_3_months", "this_year"}

\* names that fall through to the final else of _resolve_period_range
UnsupportedPeriods == {"last_week"}

\* the concatenation of a list of lists
RECURSIVE Flatten(_)
Flatten(lists) ==
  IF lists = <<>> THEN <<>> ELSE Head(lists) \o Flatten(Tail(lists))

\* the if/elif chain of _resolve_period_range reaches a branch that returns
Supported(period) == period \in Periods

\* TimelineManager._resolve_period_range, for the four supported names
_resolve_period_range(period, today) ==
  LET start ==
        CASE period = "last_7_days" -> IsoFormat(today - 6)
          [] period = "last_30_days" -> IsoFormat(today - 29)
          [] period = "last_3_months" -> IsoFormat(today - 90)
          [] period = "this_year" -> Day(YearOf(IsoFormat(today)) * 10000 + 101)
  IN  <<start, IsoFormat(today)>>

\* get_events_by_period resolving a name it does not know as last_7_days
get_events_by_period_AnyName(S, period, tags, include_archived, reference) ==
  LET cache_key == <<period, IsoFormat(reference), include_archived>>
  IN  IF cache_key \in DOMAIN S.period_cache /\ tags = <<>>
        THEN [store |-> S, ret |-> EventsOf(S.mem, S.period_cache[cache_key])]
        ELSE LET range == _resolve_period_range(
                            IF Supported(period) THEN period ELSE "last_7_days",
                            reference)
             IN  IF tags = <<>>
                   THEN LET looked == _get_events_for_period(S, range[1], range[2],
                                                             include_archived)
                        IN  [store |-> [looked.store EXCEPT
                                          !.period_cache = (cache_key :> looked.ids) @@ @],
                             ret |-> EventsOf(S.mem, looked.ids)]
                   ELSE [store |-> S,
                         ret |-> get_events(S.mem, NoArg, range[1], range[2], tags,
                                            include_archived)]

\* TimelineManager.get_events_by_period; ret is the returned event list
get_events_by_period(S, period, tags, include_archived, reference) ==
  LET cache_key == <<period, IsoFormat(reference), include_archived>>
  IN  IF cache_key \in DOMAIN S.period_cache /\ tags = <<>>
        THEN [store |-> S, ret |-> EventsOf(S.mem, S.period_cache[cache_key])]
        ELSE IF ~Supported(period)
        THEN [store |-> S, ret |-> Raised]
        ELSE LET range == _resolve_period_range(period, reference)
             IN  IF tags = <<>>
                   THEN LET looked == _get_events_for_period(S, range[1], range[2],
                                                             include_archived)
                        IN  [store |-> [looked.store EXCEPT
                                          !.period_cache = (cache_key :> looked.ids) @@ @],
                             ret |-> EventsOf(S.mem, looked.ids)]
                   ELSE [store |-> S,
                         ret |-> get_events(S.mem, NoArg, range[1], range[2], tags,
                                            include_archived)]

(***************************************************************************)
(* indexing/bptree.py.  Nodes live in a heap: a node is named by its       *)
(* position in the heap and 0 is None.  The children of a leaf are its     *)
(* buckets (lists of values), those of an internal node are node names.    *)
(* Keys are positive integers; an omitted bound is NoArg.                  *)
(***************************************************************************)
MaxKey == 4

MaxInserts == 7

TreeKeys == 1 .. MaxKey

Orders == {3, 4}

DefaultOrder == 16

Max(a, b) == IF a >= b THEN a ELSE b

_BPlusNode(keys, children, leaf, next) ==
  [keys |-> keys, children |-> children, leaf |-> leaf, next |-> next]

\* BPlusTree.__init__, for an order of at least 3
BPlusTree(order) ==
  [order |-> order, root |-> 1, nodes |-> << _BPlusNode(<<>>, <<>>, TRUE, 0) >>]

\* split with a new leaf that does not take over the next link
split_DropsLink(H, n) ==
  LET self == H[n]
      mid_index == Len(self.keys) \div 2
      split_key == self.keys[mid_index + 1]
      new_id == Len(H) + 1
      new_node ==
        IF self.leaf
          THEN _BPlusNode(Slice(self.keys, mid_index, Len(self.keys)),
                          Slice(self.children, mid_index, Len(self.children)),
                          TRUE, 0)
          ELSE _BPlusNode(Slice(self.keys, mid_index + 1, Len(self.keys)),
                          Slice(self.children, mid_index + 1, Len(self.children)),
                          FALSE, self.next)
      kept ==
        IF self.leaf
          THEN _BPlusNode(Slice(self.keys, 0, mid_index),
                          Slice(self.children, 0, mid_index), TRUE, new_id)
          ELSE _BPlusNode(Slice(self.keys, 0, mid_index + 1),
                          Slice(self.children, 0, mid_index + 1), FALSE, self.next)
  IN  [nodes |-> Append([H EXCEPT ![n] = kept], new_node),
       split |-> TRUE, split_key |-> split_key, new_node |-> new_id]

\* _BPlusNode.split of node n of heap H; the new node is put at the end of
\* the heap
split(H, n) ==
  LET self == H[n]
      mid_index == Len(self.keys) \div 2
      split_key == self.keys[mid_index + 1]
      new_id == Len(H) + 1
  IN  IF self.leaf
        THEN LET new_node ==
                   _BPlusNode(Slice(self.keys, mid_index, Len(self.keys)),
                              Slice(self.children, mid_index, Len(self.children)),
                              TRUE, self.next)
                 kept ==
                   _BPlusNode(Slice(self.keys, 0, mid_index),
                              Slice(self.children, 0, mid_index), TRUE, new_id)
             IN  [nodes |-> Append([H EXCEPT ![n] = kept], new_node),
                  split |-> TRUE, split_key |-> split_key, new_node |-> new_id]
        ELSE LET new_node ==
                   _BPlusNode(Slice(self.keys, mid_index + 1, Len(self.keys)),
                              Slice(self.children, mid_index + 1,
                                    Len(self.children)),
                              FALSE, self.next)
                 kept ==
                   _BPlusNode(Slice(self.keys, 0, mid_index + 1),
                              Slice(self.children, 0, mid_index + 1),
                              FALSE, self.next)
             IN  [nodes |-> Append([H EXCEPT ![n] = kept], new_node),
                  split |-> TRUE, split_key |-> split_key, new_node |-> new_id]

\* BPlusTree._insert_into_leaf
_insert_into_leaf(H, n, key, value) ==
  LET index == bisect_left(H[n].keys, key)
  IN  IF index < Len(H[n].keys) /\ H[n].keys[index + 1] = key
        THEN [H EXCEPT ![n].children[index + 1] = Append(@, value)]
        ELSE [H EXCEPT ![n].keys = InsertAt(@, index, key),
                       ![n].children = InsertAt(@, index, <<value>>)]

\* BPlusTree._insert; split is FALSE where the code returns None
RECURSIVE _insert(_, _, _, _, _)
_insert(H, order, n, key, value) ==
  LET H1 ==
        IF H[n].leaf
          THEN _insert_into_leaf(H, n, key, value)
          ELSE LET child_index == Max(bisect_right(H[n].keys, key) - 1, 0)
                   child == H[n].children[child_index + 1]
                   result == _insert(H, order, child, key, value)
               IN  IF result.split
                     THEN LET insert_pos ==
                                bisect_right(result.nodes[n].keys, result.split_key)
                          IN  [result.nodes EXCEPT
                                 ![n].keys = InsertAt(@, insert_pos, result.split_key),
                                 ![n].children =
                                    InsertAt(@, insert_pos + 1, result.new_node)]
                     ELSE result.nodes
  IN  IF Len(H1[n].keys) >= order
        THEN split(H1, n)
        ELSE [nodes |-> H1, split |-> FALSE, split_key |-> 0, new_node |-> 0]

\* BPlusTree.insert
insert(T, key, value) ==
  LET result == _insert(T.nodes, T.order, T.root, key, value)
  IN  IF result.split
        THEN LET new_root == _BPlusNode(<<result.split_key>>,
                                        <<T.root, result.new_node>>, FALSE, 0)
             IN  [T EXCEPT !.nodes = Append(result.nodes, new_root),
                           !.root = Len(result.nodes) + 1]
        ELSE [T EXCEPT !.nodes = result.nodes]

\* the loop of BPlusTree._find_leaf, from node n
RECURSIVE FindLeafFrom(_, _, _)
FindLeafFrom(H, n, key) ==
  IF H[n].leaf
    THEN n
    ELSE LET index == Max(bisect_right(H[n].keys, key) - 1, 0)
         IN  FindLeafFrom(H, H[n].children[index + 1], key)

\* BPlusTree._find_leaf
_find_leaf(T, key) == FindLeafFrom(T.nodes, T.root, key)

\* BPlusTree.search
search(T, key) ==
  LET leaf == T.nodes[_find_leaf(T, key)]
      idx == bisect_left(leaf.keys, key)
  IN  IF idx < Len(leaf.keys) /\ leaf.keys[idx + 1] = key
        THEN leaf.children[idx + 1]
        ELSE <<>>

\* the descent of range_query to the first leaf when start is None
RECURSIVE Leftmost(_, _)
Leftmost(H, n) == IF H[n].leaf THEN n ELSE Leftmost(H, H[n].children[1])

\* the for loop of range_query over the entries of one leaf, from entry i;
\* returned tells that the loop left through "return results"
RECURSIVE ScanLeaf(_, _, _, _, _)
ScanLeaf(node, i, start, end, results) ==
  IF i > Len(node.keys) \/ i > Len(node.children)
    THEN [results |-> results, returned |-> FALSE]
    ELSE IF start # NoArg /\ node.keys[i] < start
           THEN ScanLeaf(node, i + 1, start, end, results)
           ELSE IF end # NoArg /\ node.keys[i] > end
                  THEN [results |-> results, returned |-> TRUE]
                  ELSE ScanLeaf(node, i + 1, start, end,
                                results \o node.children[i])

\* the while loop of range_query along the next links, from node n
RECURSIVE WalkLeaves(_, _, _, _, _)
WalkLeaves(H, n, start, end, results) ==
  IF n = 0
    THEN results
    ELSE LET scanned == ScanLeaf(H[n], 1, start, end, results)
         IN  IF scanned.returned
               THEN scanned.results
               ELSE WalkLeaves(H, H[n].next, start, end, scanned.results)

\* BPlusTree.range_query
range_query(T, start, end) ==
  LET node == IF start = NoArg
                THEN Leftmost(T.nodes, T.root)
                ELSE _find_leaf(T, start)
  IN  WalkLeaves(T.nodes, node, start, end, <<>>)

\* the while loop of BPlusTree.__iter__ along the next links, from node n, a
\* leaf being visited at most once for each node of the heap
RECURSIVE IterFrom(_, _, _)
IterFrom(H, n, left) ==
  IF n = 0 \/ left = 0
    THEN <<>>
    ELSE Flatten(H[n].children) \o IterFrom(H, H[n].next, left - 1)

\* BPlusTree.__iter__, as the list of the values it yields
tree_iter(T) == IterFrom(T.nodes, Leftmost(T.nodes, T.root), Len(T.nodes))

\* String keys "2024-MM-DD" and the prefixes "2024-MM" are numbers that keep
\* the order of the strings: (MM * 100 + DD) * 10, with DD = 00 for a
\* prefix that stops after the month.  Appending "\uffff" to a string puts 9
\* in every place after its end.
DateKey(k) == ((k \div 2 + 1) * 100 + (IF k % 2 = 1 THEN 1 ELSE 14)) * 10

StringKeys == { DateKey(k) : k \in 1 .. MaxKey }

\* prefix + "\uffff"
WithSentinel(prefix) == IF prefix % 1000 = 0 THEN prefix + 999 ELSE prefix + 9

\* key.startswith(prefix)
StartsWith(key, prefix) ==
  IF prefix % 1000 = 0 THEN key \div 1000 = prefix \div 1000 ELSE key = prefix

\* BPlusTree.prefix_query, for a prefix that is a string
prefix_query(T, prefix) == range_query(T, prefix, WithSentinel(prefix))

(***************************************************************************)
(* indexing/skiplist.py.  Nodes live in a heap: node 1 is the header, the  *)
(* others follow in the order of their creation, and 0 is None.  forward   *)
(* is the list of a node's successors, forward[i + 1] being the code's      *)
(* forward[i].  The tower height that _random_level draws is an input of   *)
(* insert.                                                                 *)
(***************************************************************************)
MaxLevel == 3

MaxSkipKey == 4

MaxSkipInserts == 5

SkipKeys == 1 .. MaxSkipKey

\* the results _random_level can have for a probability strictly between 0
\* and 1
RandomLevels(max_level) == 0 .. max_level - 1

_SkipNode(key, value, forward) == [key |-> key, value |-> value, forward |-> forward]

\* SkipList.__init__
SkipList(max_level) ==
  [max_level |-> max_level, level |-> 0, size |-> 0,
   nodes |-> << _SkipNode(0, 0, [i \in 1 .. max_level |-> 0]) >>]

\* while current.forward[i] and current.forward[i].key < key:
\*     current = current.forward[i]
RECURSIVE Advance(_, _, _, _)
Advance(H, current, i, key) ==
  LET following == H[current].forward[i + 1]
  IN  IF following # 0 /\ H[following].key < key
        THEN Advance(H, following, i, key)
        ELSE current

\* for i in reversed(range(self.level + 1)), from level i downwards; update
\* receives the node reached at every level
RECURSIVE Descend(_, _, _, _, _)
Descend(H, current, i, key, update) ==
  IF i < 0
    THEN [current |-> current, update |-> update]
    ELSE LET reached == Advance(H, current, i, key)
         IN  Descend(H, reached, i - 1, key, [update EXCEPT ![i + 1] = reached])

\* insert overwriting nothing: a key that is present gets a second node
skip_insert_NoOverwrite(L, key, value, node_level) ==
  LET update0 == [i \in 1 .. L.max_level |-> 1]
      found == Descend(L.nodes, 1, L.level, key, update0)
      update == [i \in 1 .. L.max_level |->
                   IF i - 1 > L.level /\ i - 1 <= node_level
                     THEN 1 ELSE found.update[i]]
      new_id == Len(L.nodes) + 1
      new_node == _SkipNode(key, value,
                    [i \in 1 .. node_level + 1 |->
                       L.nodes[update[i]].forward[i]])
      relinked == [n \in 1 .. Len(L.nodes) |->
                     [L.nodes[n] EXCEPT !.forward =
                        [i \in 1 .. Len(L.nodes[n].forward) |->
                           IF i <= node_level + 1 /\ update[i] = n
                             THEN new_id ELSE L.nodes[n].forward[i]]]]
  IN  [L EXCEPT !.level = IF node_level > L.level THEN node_level ELSE L.level,
                !.nodes = Append(relinked, new_node),
                !.size = L.size + 1]

\* insert leaving self.level as it was when the new tower is higher
skip_insert_KeepsLevel(L, key, value, node_level) ==
  LET update0 == [i \in 1 .. L.max_level |-> 1]
      found == Descend(L.nodes, 1, L.level, key, update0)
      current == L.nodes[found.current].forward[1]
  IN  IF current # 0 /\ L.nodes[current].key = key
        THEN [L EXCEPT !.nodes[current].value = value]
        ELSE LET update == [i \in 1 .. L.max_level |->
                              IF i - 1 > L.level /\ i - 1 <= node_level
                                THEN 1 ELSE found.update[i]]
                 new_id == Len(L.nodes) + 1
                 new_node == _SkipNode(key, value,
                               [i \in 1 .. node_level + 1 |->
                                  L.nodes[update[i]].forward[i]])
                 relinked == [n \in 1 .. Len(L.nodes) |->
                                [L.nodes[n] EXCEPT !.forward =
                                   [i \in 1 .. Len(L.nodes[n].forward) |->
                                      IF i <= node_level + 1 /\ update[i] = n
                                        THEN new_id ELSE L.nodes[n].forward[i]]]]
             IN  [L EXCEPT !.nodes = Append(relinked, new_node),
                           !.size = L.size + 1]

\* SkipList.insert, node_level being the result of self._random_level()
skip_insert(L, key, value, node_level) ==
  LET update0 == [i \in 1 .. L.max_level |-> 1]
      found == Descend(L.nodes, 1, L.level, key, update0)
      current == L.nodes[found.current].forward[1]
  IN  IF current # 0 /\ L.nodes[current].key = key
        THEN [L EXCEPT !.nodes[current].value = value]
        ELSE LET update == [i \in 1 .. L.max_level |->
                              IF i - 1 > L.level /\ i - 1 <= node_level
                                THEN 1 ELSE found.update[i]]
                 new_id == Len(L.nodes) + 1
                 new_node == _SkipNode(key, value,
                               [i \in 1 .. node_level + 1 |->
                                  L.nodes[update[i]].forward[i]])
                 relinked == [n \in 1 .. Len(L.nodes) |->
                                [L.nodes[n] EXCEPT !.forward =
                                   [i \in 1 .. Len(L.nodes[n].forward) |->
                                      IF i <= node_level + 1 /\ update[i] = n
                                        THEN new_id ELSE L.nodes[n].forward[i]]]]
             IN  [L EXCEPT
                    !.level = IF node_level > L.level THEN node_level ELSE L.level,
                    !.nodes = Append(relinked, new_node),
                    !.size = L.size + 1]

\* SkipList.search
skip_search(L, key) ==
  LET found == Descend(L.nodes, 1, L.level, key, [i \in 1 .. L.max_level |-> 1])
      current == L.nodes[found.current].forward[1]
  IN  IF current # 0 /\ L.nodes[current].key = key
        THEN L.nodes[current].value
        ELSE None

\* the walk of range_query stopping at the first key >= end
RECURSIVE SkipWalk_EndExclusive(_, _, _, _, _)
SkipWalk_EndExclusive(H, current, start, end, results) ==
  IF current = 0
    THEN results
    ELSE IF start # NoArg /\ H[current].key < start
           THEN SkipWalk_EndExclusive(H, H[current].forward[1], start, end, results)
           ELSE IF end # NoArg /\ H[current].key >= end
                  THEN results
                  ELSE SkipWalk_EndExclusive(H, H[current].forward[1], start, end,
                                             Append(results, H[current].value))

\* the while loop of SkipList.range_query, from node current
RECURSIVE SkipWalk(_, _, _, _, _)
SkipWalk(H, current, start, end, results) ==
  IF current = 0
    THEN results
    ELSE IF start # NoArg /\ H[current].key < start
           THEN SkipWalk(H, H[current].forward[1], start, end, results)
           ELSE IF end # NoArg /\ H[current].key > end
                  THEN results
                  ELSE SkipWalk(H, H[current].forward[1], start, end,
                                Append(results, H[current].value))

\* SkipList.range_query
skip_range_query(L, start, end) ==
  LET first ==
        IF start # NoArg
          THEN L.nodes[Descend(L.nodes, 1, L.level, start,
                               [i \in 1 .. L.max_level |-> 1]).current].forward[1]
          ELSE L.nodes[1].forward[1]
  IN  SkipWalk(L.nodes, first, start, end, <<>>)

\* SkipList.__len__
skip_len(L) == L.size

\* SkipList.__iter__
RECURSIVE SkipItemsFrom(_, _)
SkipItemsFrom(H, current) ==
  IF current = 0
    THEN <<>>
    ELSE << <<H[current].key, H[current].value>> >>
           \o SkipItemsFrom(H, H[current].forward[1])

(***************************************************************************)
(* indexing/tagdict.py.  tag_map and tag_freq are functions whose domain   *)
(* is the set of keys present.  A Counter that is read in order (the rows  *)
(* of tag_cooccurrence_map, the scores of related_tags) is the list of its *)
(* (key, count) pairs in insertion order, which is the order of a dict.    *)
(***************************************************************************)
MaxTagOps == 4

MaxTagEvents == 2

TagEventIds == 1 .. MaxTagEvents

\* the tag lists passed to add and remove
TagLists ==
  { <<"BJJ", "holiday">>, <<"bjj", "training">>, <<"holiday", "training">>,
    <<"BJJ", "bjj">> }

\* TagDictionary.__init__
TagDictionary ==
  [tag_map |-> <<>>, tag_freq |-> <<>>, tag_cooccurrence_map |-> <<>>]

\* counter[key], 0 for a missing key
CounterGet(counter, key) ==
  IF \E i \in 1 .. Len(counter) : counter[i][1] = key
    THEN LET i == CHOOSE i \in 1 .. Len(counter) : counter[i][1] = key
         IN  counter[i][2]
    ELSE 0

\* counter[key] += n
CounterAdd(counter, key, n) ==
  IF \E i \in 1 .. Len(counter) : counter[i][1] = key
    THEN [i \in 1 .. Len(counter) |->
            IF counter[i][1] = key THEN <<key, counter[i][2] + n>> ELSE counter[i]]
    ELSE Append(counter, <<key, n>>)

\* [tag.lower() for tag in tags if tag]
NonEmptyLower(tags) ==
  LET kept(tag) == tag # ""
  IN  LowerAll(SelectSeq(tags, kept))

\* the first loop of add, over tag_list from position i
RECURSIVE AddMembership(_, _, _, _)
AddMembership(D, event_id, tag_list, i) ==
  IF i > Len(tag_list)
    THEN D
    ELSE LET tag == tag_list[i]
             members == IF tag \in DOMAIN D.tag_map THEN D.tag_map[tag] ELSE {}
             freq == IF tag \in DOMAIN D.tag_freq THEN D.tag_freq[tag] ELSE 0
         IN  AddMembership(
               [D EXCEPT !.tag_map = (tag :> (members \cup {event_id})) @@ @,
                         !.tag_freq = (tag :> (freq + 1)) @@ @],
               event_id, tag_list, i + 1)

\* self.tag_cooccurrence_map[tag][other] += 1
Cooccur(C, tag, other) ==
  LET row == IF tag \in DOMAIN C THEN C[tag] ELSE <<>>
  IN  (tag :> CounterAdd(row, other, 1)) @@ C

\* the second loop of add: the pairs (i, j) with j > i, from the pair (i, j)
RECURSIVE AddPairs(_, _, _, _)
AddPairs(C, tag_list, i, j) ==
  IF i > Len(tag_list)
    THEN C
    ELSE IF j > Len(tag_list)
           THEN AddPairs(C, tag_list, i + 1, i + 2)
           ELSE AddPairs(Cooccur(Cooccur(C, tag_list[i], tag_list[j]),
                                 tag_list[j], tag_list[i]),
                         tag_list, i, j + 1)

\* TagDictionary.add
tag_add(D, event_id, tags) ==
  LET tag_list == NonEmptyLower(tags)
      D1 == AddMembership(D, event_id, tag_list, 1)
  IN  [D1 EXCEPT !.tag_cooccurrence_map = AddPairs(@, tag_list, 1, 2)]

\* dict.pop(key, None)
Pop(map, key) == [k \in DOMAIN map \ {key} |-> map[k]]

\* TagDictionary.remove, over tags from position i
RECURSIVE RemoveFrom(_, _, _, _)
RemoveFrom(D, event_id, tags, i) ==
  IF i > Len(tags)
    THEN D
    ELSE LET normalized == Lower(tags[i])
         IN  IF normalized \in DOMAIN D.tag_map
                  /\ event_id \in D.tag_map[normalized]
               THEN LET freq == D.tag_freq[normalized] - 1
                        D1 == [D EXCEPT !.tag_map[normalized] = @ \ {event_id},
                                        !.tag_freq[normalized] = freq]
                        D2 == IF freq <= 0
                                THEN [tag_map |-> Pop(D1.tag_map, normalized),
                                      tag_freq |-> Pop(D1.tag_freq, normalized),
                                      tag_cooccurrence_map |->
                                        Pop(D1.tag_cooccurrence_map, normalized)]
                                ELSE D1
                    IN  RemoveFrom(D2, event_id, tags, i + 1)
               ELSE RemoveFrom(D, event_id, tags, i + 1)

\* TagDictionary.remove
tag_remove(D, event_id, tags) == RemoveFrom(D, event_id, tags, 1)

\* get looking the tag up as it was written
tag_get_CaseSensitive(D, tag) ==
  IF tag \in DOMAIN D.tag_map THEN D.tag_map[tag] ELSE {}

\* TagDictionary.get
tag_get(D, tag) ==
  IF Lower(tag) \in DOMAIN D.tag_map THEN D.tag_map[Lower(tag)] ELSE {}

\* scores.update(counter), over the entries of counter from position i
RECURSIVE CounterUpdate(_, _, _)
CounterUpdate(scores, counter, i) ==
  IF i > Len(counter)
    THEN scores
    ELSE CounterUpdate(CounterAdd(scores, counter[i][1], counter[i][2]),
                       counter, i + 1)

\* the first loop of related_tags, over tags from position i
RECURSIVE Scores(_, _, _, _)
Scores(D, tags, i, scores) ==
  IF i > Len(tags)
    THEN scores
    ELSE LET key == Lower(tags[i])
             row == IF key \in DOMAIN D.tag_cooccurrence_map
                      THEN D.tag_cooccurrence_map[key] ELSE <<>>
         IN  Scores(D, tags, i + 1, CounterUpdate(scores, row, 1))

\* sorted(items, key=count, reverse=True): stable, so that equal counts keep
\* their insertion order
RECURSIVE SortedByCount(_)
SortedByCount(items) ==
  IF items = <<>>
    THEN <<>>
    ELSE LET last == items[Len(items)]
             front == SortedByCount(SubSeq(items, 1, Len(items) - 1))
             ahead(entry) == entry[2] >= last[2]
             behind(entry) == entry[2] < last[2]
         IN  SelectSeq(front, ahead) \o <<last>> \o SelectSeq(front, behind)

\* Counter.most_common(limit), for a limit that is a number
most_common(counter, limit) ==
  LET ordered == SortedByCount(counter)
  IN  IF limit <= 0
        THEN <<>>
        ELSE SubSeq(ordered, 1, IF limit < Len(ordered) THEN limit ELSE Len(ordered))

\* related_tags keeping the input tags among the scores
related_tags_KeepsInputs(D, tags, limit) ==
  LET top == most_common(Scores(D, tags, 1, <<>>), limit)
  IN  [i \in 1 .. Len(top) |-> top[i][1]]

\* TagDictionary.related_tags, tags being a list
related_tags(D, tags, limit) ==
  LET scores == Scores(D, tags, 1, <<>>)
      inputs == { Lower(tags[i]) : i \in 1 .. Len(tags) }
      other(entry) == entry[1] \notin inputs
      top == most_common(SelectSeq(scores, other), limit)
  IN  [i \in 1 .. Len(top) |-> top[i][1]]

(***************************************************************************)
(* indexing/semantic_cache.py: _data is the OrderedDict, a list of          *)
(* <<key, value>> entries in the order of the dictionary, oldest first.     *)
(***************************************************************************)
MaxCacheOps == 4

DefaultCapacity == 200

Capacities == {1, 2}

CacheKeys == {"a", "b", "c"}

CacheValues == {1, 2}

\* SemanticCache.__init__
SemanticCache(capacity) == [capacity |-> capacity, _data |-> <<>>]

\* key in self._data
CacheHas(C, key) == \E i \in 1 .. Len(C._data) : C._data[i][1] = key

\* self._data[key]
CacheValue(C, key) ==
  C._data[CHOOSE i \in 1 .. Len(C._data) : C._data[i][1] = key][2]

\* self._data.pop(key): the entries without the one of key
CachePop(data, key) ==
  LET other(entry) == entry[1] # key
  IN  SelectSeq(data, other)

\* get leaving the entry where it stands
cache_get_NoTouch(C, key) ==
  IF ~CacheHas(C, key)
    THEN [cache |-> C, ret |-> None]
    ELSE [cache |-> C, ret |-> CacheValue(C, key)]

\* SemanticCache.get
cache_get(C, key) ==
  IF ~CacheHas(C, key)
    THEN [cache |-> C, ret |-> None]
    ELSE LET value == CacheValue(C, key)
         IN  [cache |-> [C EXCEPT !._data = Append(CachePop(C._data, key),
                                                    <<key, value>>)],
              ret |-> value]

\* SemanticCache.put
cache_put(C, key, value) ==
  LET kept == IF CacheHas(C, key)
                THEN CachePop(C._data, key)
                ELSE IF Len(C._data) >= C.capacity
                       THEN Tail(C._data)
                       ELSE C._data
  IN  [C EXCEPT !._data = Append(kept, <<key, value>>)]

\* len(cache)
cache_len(C) == Len(C._data)

(***************************************************************************)
(* State: the fields of the running TimelineManager, the files of its      *)
(* directory, the last call with its result, and a shadow store that is    *)
(* given the same writes but is never compacted.                           *)
(***************************************************************************)
VARIABLES events_by_id, sorted_event_ids, sorted_dates, year_index, year_dates,
          index_by_date, index_by_tag, index_by_type, index_by_character,
          index_by_hash, period_cache, period_memo, raw_files, compact_files,
          call, ret, shadow,
          order, root, nodes, inserted,
          skiplist, skip_inserted,
          semantic_cache, last_use, cache_log,
          writer, reader, mem_before, mem_after, interleaved,
          tagdict, tag_held, tag_ops

memvars == <<events_by_id, sorted_event_ids, sorted_dates, year_index, year_dates,
             index_by_date, index_by_tag, index_by_type, index_by_character,
             index_by_hash>>

diskvars == <<raw_files, compact_files>>

cachevars == <<period_cache, period_memo>>

\* a BPlusTree and the list of the (key, value) pairs inserted into it
indexvars == <<order, root, nodes, inserted>>

storevars == <<memvars, diskvars, cachevars, call, ret, shadow>>

\* a SkipList and the list of the (key, value) pairs inserted into it
skipvars == <<skiplist, skip_inserted>>

\* the variables of the structures of the indexing package
\* a TagDictionary, the (event id, tag) pairs added and not removed since,
\* and the number of calls made
tagvars == <<tagdict, tag_held, tag_ops>>

semvars == <<semantic_cache, last_use, cache_log>>

indexingvars == <<indexvars, skipvars, tagvars, semvars>>

\* the position of a thread inside a write (writer) and inside
\* get_events_by_period (reader), the in-memory state before and after the
\* last write begun, and whether a read has shared time with a write
concvars == <<writer, reader, mem_before, mem_after, interleaved>>

vars == <<storevars, indexingvars, concvars>>

Tree == [order |-> order, root |-> root, nodes |-> nodes]

Mem ==
  [events_by_id |-> events_by_id, sorted_event_ids |-> sorted_event_ids,
   sorted_dates |-> sorted_dates, year_index |-> year_index,
   year_dates |-> year_dates, index_by_date |-> index_by_date,
   index_by_tag |-> index_by_tag, index_by_type |-> index_by_type,
   index_by_character |-> index_by_character, index_by_hash |-> index_by_hash]

Disk == [raw |-> raw_files, compact |-> compact_files]

Store == [mem |-> Mem, disk |-> Disk, period_cache |-> period_cache,
          memo |-> period_memo]

SetStore(S) ==
  /\ events_by_id' = S.mem.events_by_id
  /\ sorted_event_ids' = S.mem.sorted_event_ids
  /\ sorted_dates' = S.mem.sorted_dates
  /\ year_index' = S.mem.year_index
  /\ year_dates' = S.mem.year_dates
  /\ index_by_date' = S.mem.index_by_date
  /\ index_by_tag' = S.mem.index_by_tag
  /\ index_by_type' = S.mem.index_by_type
  /\ index_by_character' = S.mem.index_by_character
  /\ index_by_hash' = S.mem.index_by_hash
  /\ raw_files' = S.disk.raw
  /\ compact_files' = S.disk.compact
  /\ period_cache' = S.period_cache
  /\ period_memo' = S.memo

\* the ids of the records of every file of a directory
DiskIds(D) ==
  UNION { { D.raw[y].data[i].id : i \in 1 .. Len(D.raw[y].data) }
            \cup { D.compact[y].data[i].id : i \in 1 .. Len(D.compact[y].data) } :
          y \in Years }

\* uuid4: an id that no event of the directory or of either store has
FreshIds ==
  Ids \ (DOMAIN events_by_id \cup DiskIds(Disk)
           \cup DOMAIN shadow.mem.events_by_id \cup DiskIds(shadow.disk))

WithId(payload, id) == [payload EXCEPT !.id = id]

Idle == [pc |-> "idle"]

\* no call of the manager is in progress
InitThreads ==
  /\ writer = Idle
  /\ reader = Idle
  /\ mem_before = EmptyMem
  /\ mem_after = EmptyMem
  /\ interleaved = FALSE

\* TimelineManager(base_path) over an empty directory
InitStore ==
  /\ events_by_id = EmptyMem.events_by_id
  /\ sorted_event_ids = EmptyMem.sorted_event_ids
  /\ sorted_dates = EmptyMem.sorted_dates
  /\ year_index = EmptyMem.year_index
  /\ year_dates = EmptyMem.year_dates
  /\ index_by_date = EmptyMem.index_by_date
  /\ index_by_tag = EmptyMem.index_by_tag
  /\ index_by_type = EmptyMem.index_by_type
  /\ index_by_character = EmptyMem.index_by_character
  /\ index_by_hash = EmptyMem.index_by_hash
  /\ raw_files = EmptyDisk.raw
  /\ compact_files = EmptyDisk.compact
  /\ period_cache = EmptyCache
  /\ period_memo = EmptyCache
  /\ call = [op |-> "init", event_id |-> 0]
  /\ ret = None
  /\ shadow = NewManager(EmptyDisk)
  /\ InitThreads

\* tree = BPlusTree(order)
InitIndex(tree_order) ==
  /\ order = BPlusTree(tree_order).order
  /\ root = BPlusTree(tree_order).root
  /\ nodes = BPlusTree(tree_order).nodes
  /\ inserted = <<>>

\* skip = SkipList(max_level=MaxLevel)
InitSkipList ==
  /\ skiplist = SkipList(MaxLevel)
  /\ skip_inserted = <<>>

\* tags = TagDictionary()
InitTagDictionary ==
  /\ tagdict = TagDictionary
  /\ tag_held = {}
  /\ tag_ops = 0

\* cache = SemanticCache(capacity); last_use is the position in cache_log of
\* the last put or successful get of a key, 0 before the first
InitSemanticCache(capacity) ==
  /\ semantic_cache = SemanticCache(capacity)
  /\ last_use = [key \in CacheKeys |-> 0]
  /\ cache_log = <<>>

\* the structures of the indexing package other than the B+ tree and the
\* cache
InitIndexing == InitSkipList /\ InitTagDictionary

Init ==
  /\ InitStore
  /\ InitIndex(DefaultOrder)
  /\ InitIndexing
  /\ InitSemanticCache(DefaultCapacity)

(***************************************************************************)
(* Actions: one call of the public contract each                           *)
(***************************************************************************)
\* add_event(event), event being a new TimelineEvent object
AddEvent(payload, id) ==
  /\ id \in FreshIds
  /\ LET event == WithId(payload, id)
         result == add_event(Store, event)
     IN  /\ SetStore(result.store)
         /\ ret' = result.ret
         /\ call' = [op |-> "add_event", event_id |-> id]
         /\ shadow' = add_event(shadow, event).store
  /\ UNCHANGED <<indexingvars, concvars>>

\* archive_event(event_id)
ArchiveEvent(event_id) ==
  /\ \E result \in archive_event(Store, event_id) :
        /\ SetStore(result.store)
        /\ ret' = result.ret
  /\ call' = [op |-> "archive_event", event_id |-> event_id]
  /\ \E result \in archive_event(shadow, event_id) : shadow' = result.store
  /\ UNCHANGED <<indexingvars, concvars>>

\* correct_event(event_id, corrected_event)
CorrectEvent(event_id, payload, id) ==
  /\ id \in FreshIds
  /\ LET event == WithId(payload, id)
     IN  /\ \E result \in correct_event(Store, event_id, event) :
               /\ SetStore(result.store)
               /\ ret' = result.ret
         /\ call' = [op |-> "correct_event", event_id |-> event_id]
         /\ \E result \in correct_event(shadow, event_id, event) :
               shadow' = result.store
  /\ UNCHANGED <<indexingvars, concvars>>

\* the process ends and a new TimelineManager is built over the directory
Restart ==
  /\ SetStore(NewManager(Disk))
  /\ ret' = None
  /\ call' = [op |-> "restart", event_id |-> 0]
  /\ shadow' = NewManager(shadow.disk)
  /\ UNCHANGED <<indexingvars, concvars>>

\* compact_year(manager, year)
CompactYear(year) ==
  /\ raw_files' = compact_year(Disk, year).raw
  /\ compact_files' = compact_year(Disk, year).compact
  /\ ret' = None
  /\ call' = [op |-> "compact_year", event_id |-> 0]
  /\ UNCHANGED <<memvars, cachevars, shadow>>
  /\ UNCHANGED <<indexingvars, concvars>>

\* compact_outdated_shards(manager, horizon_days)
CompactOutdatedShards(threshold_year) ==
  /\ raw_files' = compact_outdated_shards(Disk, threshold_year).raw
  /\ compact_files' = compact_outdated_shards(Disk, threshold_year).compact
  /\ ret' = None
  /\ call' = [op |-> "compact_outdated_shards", event_id |-> 0]
  /\ UNCHANGED <<memvars, cachevars, shadow>>
  /\ UNCHANGED <<indexingvars, concvars>>

MaxCached == 2

ReferenceDays == {20126}

QueryTags == {<<>>, <<"BJJ">>}

\* get_events_by_period(period, tags, include_archived, reference_date)
GetEventsByPeriod(period, tags, include_archived, reference) ==
  /\ \/ tags # <<>>
     \/ ~Supported(period)
     \/ <<period, IsoFormat(reference), include_archived>> \in DOMAIN period_cache
     \/ Cardinality(DOMAIN period_cache) < MaxCached
  /\ LET result == get_events_by_period(Store, period, tags, include_archived,
                                        reference)
     IN  /\ SetStore(result.store)
         /\ ret' = result.ret
  /\ call' = [op |-> "get_events_by_period", event_id |-> 0, period |-> period]
  /\ UNCHANGED shadow
  /\ UNCHANGED <<indexingvars, concvars>>

\* Only compact_year compares ids, so where nothing is compacted the new id
\* is taken to be the least unused one.
NextId ==
  IF FreshIds = {}
    THEN 0
    ELSE CHOOSE id \in FreshIds : \A other \in FreshIds : id <= other

Next ==
  \/ \E payload \in EventInputs \cup MalformedInputs : AddEvent(payload, NextId)
  \/ \E event_id \in Ids : ArchiveEvent(event_id)
  \/ \E event_id \in Ids, payload \in EventInputs \cup MalformedInputs :
        CorrectEvent(event_id, payload, NextId)
  \/ Restart

Spec == Init /\ [][Next]_vars

\* the events written where shards are compacted: two years, two per date
CompactInputs ==
  { e \in EventInputs : e.source = "user_entry" /\ e.date # Day(20250207) }

NextCompact ==
  \/ \E payload \in CompactInputs, id \in Ids : AddEvent(payload, id)
  \/ \E event_id \in Ids : ArchiveEvent(event_id)
  \/ \E event_id \in Ids, payload \in CompactInputs, id \in Ids :
        CorrectEvent(event_id, payload, id)
  \/ Restart
  \/ \E year \in Years : CompactYear(year)
  \/ \E threshold_year \in {2025, 2026} : CompactOutdatedShards(threshold_year)

SpecCompact == Init /\ [][NextCompact]_vars

\* the events written where period queries are cached: one per date
CacheInputs ==
  { e \in EventInputs : /\ e.source = "user_entry" /\ e.title = "Old"
                        /\ YearOf(e.date) = 2025 }
    \cup { TimelineEvent(0, d, "Old", "note", "info", <<"BJJ", "holiday">>,
                        "user_entry", FALSE, <<>>) : d \in PeriodDates }

NextCache ==
  \/ \E payload \in CacheInputs : AddEvent(payload, NextId)
  \/ \E event_id \in Ids : ArchiveEvent(event_id)
  \/ \E event_id \in Ids, payload \in CacheInputs :
        CorrectEvent(event_id, payload, NextId)
  \/ \E period \in Periods \cup UnsupportedPeriods, tags \in QueryTags,
        include_archived \in BOOLEAN, reference \in ReferenceDays :
        GetEventsByPeriod(period, tags, include_archived, reference)

SpecCache == Init /\ [][NextCache]_vars

\* tree.insert(key, value); the value is the number of the insert
Insert(key) ==
  /\ Len(inserted) < MaxInserts
  /\ LET value == Len(inserted) + 1
         T == insert(Tree, key, value)
     IN  /\ root' = T.root
         /\ nodes' = T.nodes
         /\ inserted' = Append(inserted, <<key, value>>)
  /\ UNCHANGED <<order, storevars, skipvars, tagvars, semvars, concvars>>

InitBPTree ==
  /\ InitStore
  /\ \E tree_order \in Orders : InitIndex(tree_order)
  /\ InitIndexing
  /\ InitSemanticCache(DefaultCapacity)

NextBPTree == \E key \in TreeKeys : Insert(key)

SpecBPTree == InitBPTree /\ [][NextBPTree]_vars

\* skip.insert(key, value); the value is the number of the insert
SkipInsert(key, node_level) ==
  /\ Len(skip_inserted) < MaxSkipInserts
  /\ LET value == Len(skip_inserted) + 1
     IN  /\ skiplist' = skip_insert(skiplist, key, value, node_level)
         /\ skip_inserted' = Append(skip_inserted, <<key, value>>)
  /\ UNCHANGED <<storevars, indexvars, tagvars, semvars, concvars>>

NextSkipList ==
  \E key \in SkipKeys, node_level \in RandomLevels(MaxLevel) :
     SkipInsert(key, node_level)

SpecSkipList == Init /\ [][NextSkipList]_vars

\* the (event id, tag) pairs that add(event_id, tags) records
Holding(event_id, tags) ==
  { <<event_id, NonEmptyLower(tags)[i]>> : i \in 1 .. Len(NonEmptyLower(tags)) }

\* tags.add(event_id, tags)
TagAdd(event_id, tags) ==
  /\ tag_ops < MaxTagOps
  /\ tagdict' = tag_add(tagdict, event_id, tags)
  /\ tag_held' = tag_held \cup Holding(event_id, tags)
  /\ tag_ops' = tag_ops + 1
  /\ UNCHANGED <<storevars, indexvars, skipvars, semvars, concvars>>

\* tags.remove(event_id, tags)
TagRemove(event_id, tags) ==
  /\ tag_ops < MaxTagOps
  /\ tagdict' = tag_remove(tagdict, event_id, tags)
  /\ tag_held' = tag_held \ Holding(event_id, tags)
  /\ tag_ops' = tag_ops + 1
  /\ UNCHANGED <<storevars, indexvars, skipvars, semvars, concvars>>

NextTagDictionary ==
  \/ \E event_id \in TagEventIds, tags \in TagLists : TagAdd(event_id, tags)
  \/ \E event_id \in TagEventIds, tags \in TagLists : TagRemove(event_id, tags)

SpecTagDictionary == Init /\ [][NextTagDictionary]_vars

\* cache.get(key)
CacheGet(key) ==
  /\ Len(cache_log) < MaxCacheOps
  /\ semantic_cache' = cache_get(semantic_cache, key).cache
  /\ last_use' = IF CacheHas(semantic_cache, key)
                   THEN [last_use EXCEPT ![key] = Len(cache_log) + 1]
                   ELSE last_use
  /\ cache_log' = Append(cache_log, <<"get", key>>)
  /\ UNCHANGED <<storevars, indexvars, skipvars, tagvars, concvars>>

\* cache.put(key, value)
CachePut(key, value) ==
  /\ Len(cache_log) < MaxCacheOps
  /\ semantic_cache' = cache_put(semantic_cache, key, value)
  /\ last_use' = [last_use EXCEPT ![key] = Len(cache_log) + 1]
  /\ cache_log' = Append(cache_log, <<"put", key>>)
  /\ UNCHANGED <<storevars, indexvars, skipvars, tagvars, concvars>>

InitLRU ==
  /\ InitStore
  /\ InitIndex(DefaultOrder)
  /\ InitIndexing
  /\ \E capacity \in Capacities : InitSemanticCache(capacity)

NextLRU ==
  \/ \E key \in CacheKeys : CacheGet(key)
  \/ \E key \in CacheKeys, value \in CacheValues : CachePut(key, value)

SpecLRU == InitLRU /\ [][NextLRU]_vars

\* the same tree holding string keys
NextPrefix == \E key \in StringKeys : Insert(key)

SpecPrefix == InitBPTree /\ [][NextPrefix]_vars

(***************************************************************************)
(* Threads.  The manager takes no lock, so a thread calling a query runs   *)
(* between any two statements of a thread calling add_event or             *)
(* archive_event.  One writer (writes are serialized by the caller) and    *)
(* one reader; the reader's get_events_between and get_events are taken    *)
(* in one step, its get_events_by_period in two.  A write begins only      *)
(* when the query in progress has not yet shared time with a write.        *)
(***************************************************************************)
ThreadInputs == { e \in CacheInputs : e.date \in Dates }

ThreadDates == { e.date : e \in ThreadInputs }

ThreadPeriods == {"this_year"}

MayBeginWrite ==
  /\ writer.pc = "idle"
  /\ IF reader.pc = "idle" THEN TRUE ELSE ~reader.overlapped

\* a write begins: the states before and after it, and the query in
\* progress now shares time with a write
BeginWrite(after) ==
  /\ mem_before' = Mem
  /\ mem_after' = after
  /\ reader' = IF reader.pc = "idle" THEN reader
                ELSE [reader EXCEPT !.overlapped = TRUE]
  /\ interleaved' = (interleaved \/ reader.pc # "idle")

\* add_event up to _save_year (timeline_manager.py 134-142); a payload
\* already stored is returned at once
AddEventSave(payload, id) ==
  /\ MayBeginWrite
  /\ id \in FreshIds
  /\ \/ _compute_ingestion_hash(payload) \in DOMAIN index_by_hash
     \/ Parsable(payload.date)
  /\ LET event == WithId(payload, id)
         ingestion_hash == _compute_ingestion_hash(event)
     IN  IF ingestion_hash \in DOMAIN index_by_hash
           THEN /\ ret' = events_by_id[index_by_hash[ingestion_hash]]
                /\ call' = [op |-> "add_event", event_id |-> id]
                /\ UNCHANGED <<memvars, diskvars, cachevars, shadow, concvars>>
           ELSE LET event_year == YearOf(event.date)
                    loaded == _load_raw_year(Disk, event_year)
                    saved == _save_year(loaded.disk, event_year,
                                        Append(loaded.events, asdict(event)))
                IN  /\ raw_files' = saved.raw
                    /\ compact_files' = saved.compact
                    /\ writer' = [pc |-> "saved", event |-> event, position |-> 0]
                    /\ BeginWrite(add_event(Store, event).store.mem)
                    /\ shadow' = add_event(shadow, event).store
                    /\ call' = [op |-> "add_event", event_id |-> id]
                    /\ ret' = None
                    /\ UNCHANGED <<memvars, cachevars>>
  /\ UNCHANGED indexingvars

\* _index_event: self.events_by_id[event.id] = event (line 106)
IndexEventById ==
  /\ writer.pc = "saved"
  /\ events_by_id' = (writer.event.id :> writer.event) @@ events_by_id
  /\ writer' = [writer EXCEPT !.pc = "by_id"]
  /\ UNCHANGED <<sorted_event_ids, sorted_dates, year_index, year_dates,
                 index_by_date, index_by_tag, index_by_type, index_by_character,
                 index_by_hash, diskvars, cachevars, call, ret, shadow,
                 reader, mem_before, mem_after, interleaved, indexingvars>>

\* _insert_sorted_event: position = bisect_right(...);
\* self.sorted_dates.insert(position, event.date) (lines 91-92)
InsertSortedDate ==
  /\ writer.pc = "by_id"
  /\ LET position == bisect_right(sorted_dates, writer.event.date)
     IN  /\ sorted_dates' = InsertAt(sorted_dates, position, writer.event.date)
         /\ writer' = [writer EXCEPT !.pc = "date", !.position = position]
  /\ UNCHANGED <<events_by_id, sorted_event_ids, year_index, year_dates,
                 index_by_date, index_by_tag, index_by_type, index_by_character,
                 index_by_hash, diskvars, cachevars, call, ret, shadow,
                 reader, mem_before, mem_after, interleaved, indexingvars>>

\* _insert_sorted_event: self.sorted_event_ids.insert(position, event.id)
\* (line 93)
InsertSortedId ==
  /\ writer.pc = "date"
  /\ sorted_event_ids' = InsertAt(sorted_event_ids, writer.position, writer.event.id)
  /\ writer' = [writer EXCEPT !.pc = "id"]
  /\ UNCHANGED <<events_by_id, sorted_dates, year_index, year_dates,
                 index_by_date, index_by_tag, index_by_type, index_by_character,
                 index_by_hash, diskvars, cachevars, call, ret, shadow,
                 reader, mem_before, mem_after, interleaved, indexingvars>>

\* the rest of _insert_sorted_event and of _index_event (lines 95-119)
IndexRest ==
  /\ writer.pc = "id"
  /\ LET indexed == _index_event(mem_before, writer.event)
     IN  /\ year_dates' = indexed.year_dates
         /\ year_index' = indexed.year_index
         /\ index_by_date' = indexed.index_by_date
         /\ index_by_type' = indexed.index_by_type
         /\ index_by_tag' = indexed.index_by_tag
         /\ index_by_character' = indexed.index_by_character
         /\ index_by_hash' = indexed.index_by_hash
  /\ writer' = [writer EXCEPT !.pc = "indexed"]
  /\ UNCHANGED <<events_by_id, sorted_event_ids, sorted_dates,
                 diskvars, cachevars, call, ret, shadow,
                 reader, mem_before, mem_after, interleaved, indexingvars>>

\* archive_event up to _save_year (lines 248-263); an id no shard holds
\* returns None at once
ArchiveSave(event_id) ==
  /\ MayBeginWrite
  /\ \E result \in archive_event(Store, event_id) :
        IF result.ret = None
          THEN /\ ret' = None
               /\ UNCHANGED <<memvars, diskvars, cachevars, shadow, concvars>>
          ELSE /\ raw_files' = result.store.disk.raw
               /\ compact_files' = result.store.disk.compact
               /\ writer' = [pc |-> "archive_saved", event |-> result.ret,
                             position |-> 0]
               /\ BeginWrite(result.store.mem)
               /\ \E twin \in archive_event(shadow, event_id) : shadow' = twin.store
               /\ ret' = None
               /\ UNCHANGED <<memvars, cachevars>>
  /\ call' = [op |-> "archive_event", event_id |-> event_id]
  /\ UNCHANGED indexingvars

\* archive_event: self.events_by_id[event_id] = archived_event (line 265)
ArchiveRefresh ==
  /\ writer.pc = "archive_saved"
  /\ events_by_id' = (writer.event.id :> writer.event) @@ events_by_id
  /\ writer' = [writer EXCEPT !.pc = "indexed"]
  /\ UNCHANGED <<sorted_event_ids, sorted_dates, year_index, year_dates,
                 index_by_date, index_by_tag, index_by_type, index_by_character,
                 index_by_hash, diskvars, cachevars, call, ret, shadow,
                 reader, mem_before, mem_after, interleaved, indexingvars>>

\* _invalidate_cache: self._period_cache.clear() (line 122)
ClearPeriodCache ==
  /\ writer.pc = "indexed"
  /\ period_cache' = EmptyCache
  /\ writer' = [writer EXCEPT !.pc = "cleared"]
  /\ UNCHANGED <<memvars, diskvars, period_memo, call, ret, shadow,
                 reader, mem_before, mem_after, interleaved, indexingvars>>

\* _invalidate_cache: self._get_events_for_period.cache_clear() (line 123),
\* and the return of the write
ClearMemo ==
  /\ writer.pc = "cleared"
  /\ period_memo' = EmptyCache
  /\ writer' = Idle
  /\ ret' = writer.event
  /\ call' = [op |-> IF writer.event.archived THEN "archive_event" ELSE "add_event",
               event_id |-> writer.event.id]
  /\ UNCHANGED <<memvars, diskvars, period_cache, shadow,
                 reader, mem_before, mem_after, interleaved, indexingvars>>

\* a query runs while a write is in progress
Interleave == interleaved' = (interleaved \/ writer.pc # "idle")

\* get_events_between(start, end)
GetEventsBetween(start, end) ==
  /\ reader.pc = "idle"
  /\ ret' = get_events_between(Mem, start, end)
  /\ call' = [op |-> "get_events_between", event_id |-> 0,
               start |-> start, end |-> end]
  /\ Interleave
  /\ UNCHANGED <<memvars, diskvars, cachevars, shadow, writer, reader,
                 mem_before, mem_after, indexingvars>>

\* get_events(year=year, tags=tags)
GetEvents(year, tags) ==
  /\ reader.pc = "idle"
  /\ ret' = get_events(Mem, year, NoArg, NoArg, tags, FALSE)
  /\ call' = [op |-> "get_events", event_id |-> 0, year |-> year, tags |-> tags]
  /\ Interleave
  /\ UNCHANGED <<memvars, diskvars, cachevars, shadow, writer, reader,
                 mem_before, mem_after, indexingvars>>

\* get_events_by_period without tags up to the call of
\* _get_events_for_period (lines 230-238); a cached key returns at once
PeriodLookup(period, include_archived, reference) ==
  /\ reader.pc = "idle"
  /\ LET cache_key == <<period, IsoFormat(reference), include_archived>>
         range == _resolve_period_range(period, reference)
         looked == _get_events_for_period(Store, range[1], range[2],
                                          include_archived)
     IN  IF cache_key \in DOMAIN period_cache
           THEN /\ ret' = EventsOf(Mem, period_cache[cache_key])
                /\ call' = [op |-> "get_events_by_period", event_id |-> 0,
                             period |-> period,
                             include_archived |-> include_archived,
                             reference |-> reference]
                /\ UNCHANGED <<period_memo, reader>>
           ELSE /\ period_memo' = looked.store.memo
                /\ reader' = [pc |-> "computed", period |-> period,
                              include_archived |-> include_archived,
                              reference |-> reference, ids |-> looked.ids,
                              overlapped |-> writer.pc # "idle"]
                /\ ret' = None
                /\ call' = [op |-> "reading", event_id |-> 0]
  /\ Interleave
  /\ UNCHANGED <<memvars, diskvars, period_cache, shadow, writer,
                 mem_before, mem_after, indexingvars>>

\* get_events_by_period: events = [...]; self._period_cache[cache_key] =
\* list(cached_ids); return events (lines 239-243)
PeriodStore ==
  /\ reader.pc = "computed"
  /\ period_cache' =
        (<<reader.period, IsoFormat(reader.reference), reader.include_archived>>
           :> reader.ids) @@ period_cache
  /\ ret' = EventsOf(Mem, reader.ids)
  /\ call' = [op |-> "get_events_by_period", event_id |-> 0,
               period |-> reader.period,
               include_archived |-> reader.include_archived,
               reference |-> reader.reference]
  /\ reader' = Idle
  /\ Interleave
  /\ UNCHANGED <<memvars, diskvars, period_memo, shadow, writer,
                 mem_before, mem_after, indexingvars>>

NextThreads ==
  \/ \E payload \in ThreadInputs : AddEventSave(payload, NextId)
  \/ IndexEventById
  \/ InsertSortedDate
  \/ InsertSortedId
  \/ IndexRest
  \/ \E event_id \in Ids : ArchiveSave(event_id)
  \/ ArchiveRefresh
  \/ ClearPeriodCache
  \/ ClearMemo
  \/ \E start \in ThreadDates, end \in ThreadDates : GetEventsBetween(start, end)
  \/ \E year \in {NoArg} \cup Years, tags \in QueryTags : GetEvents(year, tags)
  \/ \E period \in ThreadPeriods, include_archived \in BOOLEAN,
        reference \in ReferenceDays :
        PeriodLookup(period, include_archived, reference)
  \/ PeriodStore

SpecThreads == Init /\ [][NextThreads]_vars

(***************************************************************************)
(* correct_event statement by statement: the states between its internal   *)
(* steps.  writer holds the archived original and the replacement.         *)
(***************************************************************************)
\* the thread's view of the other state while it runs one statement
CorrectionFrame ==
  UNCHANGED <<reader, mem_before, mem_after, interleaved, indexingvars>>

\* correct_event: archive_event up to _save_year (lines 273, 248-263); an
\* id no shard holds returns None at once
CorrectArchiveSave(event_id, payload, id) ==
  /\ writer.pc = "idle"
  /\ id \in FreshIds
  /\ \E result \in archive_event(Store, event_id) :
        IF result.ret = None
          THEN /\ ret' = None
               /\ UNCHANGED <<memvars, diskvars, cachevars, shadow, writer>>
          ELSE /\ raw_files' = result.store.disk.raw
               /\ compact_files' = result.store.disk.compact
               /\ writer' = [pc |-> "correct_saved", event |-> result.ret,
                             position |-> 0, corrected |-> WithId(payload, id)]
               /\ \E twin \in correct_event(shadow, event_id, WithId(payload, id)) :
                     shadow' = twin.store
               /\ ret' = None
               /\ UNCHANGED <<memvars, cachevars>>
  /\ call' = [op |-> "correct_event", event_id |-> event_id]
  /\ CorrectionFrame

\* archive_event: self.events_by_id[event_id] = archived_event (line 265)
CorrectArchiveRefresh ==
  /\ writer.pc = "correct_saved"
  /\ events_by_id' = (writer.event.id :> writer.event) @@ events_by_id
  /\ writer' = [writer EXCEPT !.pc = "correct_refreshed"]
  /\ UNCHANGED <<sorted_event_ids, sorted_dates, year_index, year_dates,
                 index_by_date, index_by_tag, index_by_type, index_by_character,
                 index_by_hash, diskvars, cachevars, call, ret, shadow>>
  /\ CorrectionFrame

\* archive_event: self._invalidate_cache() and its return (lines 266-267)
CorrectInvalidate ==
  /\ writer.pc = "correct_refreshed"
  /\ period_cache' = EmptyCache
  /\ period_memo' = EmptyCache
  /\ writer' = [writer EXCEPT !.pc = "correct_archived"]
  /\ UNCHANGED <<memvars, diskvars, call, ret, shadow>>
  /\ CorrectionFrame

\* correct_event lines 276-288 and add_event up to _save_year (134-142):
\* a replacement whose content is stored already is returned at once, one
\* whose date does not parse raises
CorrectAddSave ==
  /\ writer.pc = "correct_archived"
  /\ LET given == writer.corrected
         corrected ==
           IF given.source = ""
             THEN TimelineEvent(given.id, given.date, given.title, given.type,
                                given.details, given.tags, "correction",
                                given.archived, <<>>)
             ELSE given
         ingestion_hash == _compute_ingestion_hash(corrected)
     IN  IF ingestion_hash \in DOMAIN index_by_hash
           THEN /\ ret' = corrected
                /\ writer' = Idle
                /\ UNCHANGED diskvars
           ELSE IF ~Parsable(corrected.date)
           THEN /\ ret' = Raised
                /\ writer' = Idle
                /\ UNCHANGED diskvars
           ELSE LET event_year == YearOf(corrected.date)
                    loaded == _load_raw_year(Disk, event_year)
                    saved == _save_year(loaded.disk, event_year,
                                        Append(loaded.events, asdict(corrected)))
                IN  /\ raw_files' = saved.raw
                    /\ compact_files' = saved.compact
                    /\ writer' = [writer EXCEPT !.pc = "correct_added",
                                                !.corrected = corrected]
                    /\ UNCHANGED ret
  /\ UNCHANGED <<memvars, cachevars, call, shadow>>
  /\ CorrectionFrame

\* add_event: self._index_event(event) (line 144)
CorrectIndex ==
  /\ writer.pc = "correct_added"
  /\ LET indexed == _index_event(Mem, writer.corrected)
     IN  /\ events_by_id' = indexed.events_by_id
         /\ sorted_event_ids' = indexed.sorted_event_ids
         /\ sorted_dates' = indexed.sorted_dates
         /\ year_dates' = indexed.year_dates
         /\ year_index' = indexed.year_index
         /\ index_by_date' = indexed.index_by_date
         /\ index_by_type' = indexed.index_by_type
         /\ index_by_tag' = indexed.index_by_tag
         /\ index_by_character' = indexed.index_by_character
         /\ index_by_hash' = indexed.index_by_hash
  /\ writer' = [writer EXCEPT !.pc = "correct_indexed"]
  /\ UNCHANGED <<diskvars, cachevars, call, ret, shadow>>
  /\ CorrectionFrame

\* add_event: self._invalidate_cache(), and the return of correct_event
\* (lines 145-146, 289)
CorrectReturn ==
  /\ writer.pc = "correct_indexed"
  /\ period_cache' = EmptyCache
  /\ period_memo' = EmptyCache
  /\ ret' = writer.corrected
  /\ writer' = Idle
  /\ UNCHANGED <<memvars, diskvars, call, shadow>>
  /\ CorrectionFrame

NextCorrection ==
  \/ \E payload \in EventInputs : writer.pc = "idle" /\ AddEvent(payload, NextId)
  \/ \E event_id \in Ids, payload \in EventInputs \cup MalformedInputs :
        CorrectArchiveSave(event_id, payload, NextId)
  \/ CorrectArchiveRefresh
  \/ CorrectInvalidate
  \/ CorrectAddSave
  \/ CorrectIndex
  \/ CorrectReturn

SpecCorrection == Init /\ [][NextCorrection]_vars

\* events whose title or details holds the "|" that
\* _compute_ingestion_hash joins the fields with
SeparatorInputs ==
  { TimelineEvent(0, Day(20241231), "Old|", "", "info", <<>>, "user_entry",
                  FALSE, <<>>),
    TimelineEvent(0, Day(20241231), "Old", "", "|info", <<>>, "user_entry",
                  FALSE, <<>>),
    TimelineEvent(0, Day(20241231), "Old", "", "info", <<>>, "user_entry",
                  FALSE, <<>>) }

DedupInputs == { e \in EventInputs : e.source = "user_entry" } \cup SeparatorInputs

NextDedup ==
  \/ \E payload \in DedupInputs : AddEvent(payload, NextId)
  \/ \E event_id \in Ids : ArchiveEvent(event_id)
  \/ Restart

SpecDedup == Init /\ [][NextDedup]_vars

(***************************************************************************)
(* Properties                                                              *)
(***************************************************************************)
\* ids of event objects built for a call that is only examined, not taken
ProbeId1 == MaxEvents + 1

ProbeId2 == MaxEvents + 2

SameContent(a, b) ==
  /\ a.date = b.date
  /\ a.title = b.title
  /\ a.type = b.type
  /\ a.details = b.details

StoredIds == DOMAIN events_by_id

\* the number of records load_year would return for a year
PartitionSize(D, year) == Len(_load_raw_year(D, year).events)

\* C1: in every reachable store state, for any two event objects with equal
\* (date, title, type, details), add_event of the first and then of the
\* second returns events with the same id, and the second call leaves the
\* number of in-memory events and the number of records of every file of the
\* year partition as the first call left them.
C1_IdempotentIngestion ==
  \A p1 \in EventInputs, p2 \in EventInputs :
    SameContent(p1, p2) =>
      LET first == add_event(Store, WithId(p1, ProbeId1))
          second == add_event(first.store, WithId(p2, ProbeId2))
          year == YearOf(p1.date)
      IN  /\ second.ret.id = first.ret.id
          /\ Cardinality(DOMAIN second.store.mem.events_by_id)
               = Cardinality(DOMAIN first.store.mem.events_by_id)
          /\ PartitionSize(second.store.disk, year)
               = PartitionSize(first.store.disk, year)
          /\ Len(second.store.disk.raw[year].data)
               = Len(first.store.disk.raw[year].data)

\* a second add_event of known content has just returned the stored event
C1_Witness ==
  /\ call.op = "add_event"
  /\ ret # None
  /\ ret.id # call.event_id
  /\ ret.id \in StoredIds

\* C2: a TimelineManager constructed over the directory holds the same
\* id -> event map, the same sorted id order and the same ingestion-hash map
\* as the running instance.
C2_RestartEquivalence ==
  LET restarted == _bootstrap_from_disk(Disk)
  IN  /\ restarted.events_by_id = events_by_id
      /\ restarted.sorted_event_ids = sorted_event_ids
      /\ restarted.sorted_dates = sorted_dates
      /\ restarted.index_by_hash = index_by_hash

\* a store of two events in two shards, one of them archived, was restarted
C2_Witness ==
  /\ call.op = "restart"
  /\ Cardinality(StoredIds) >= 2
  /\ \E id \in StoredIds : events_by_id[id].archived
  /\ \E a \in StoredIds, b \in StoredIds :
        YearOf(events_by_id[a].date) # YearOf(events_by_id[b].date)

\* the range bounds and tag lists that queries are asked with
RangeBounds == Dates \cup {Day(101), Day(20250101), Day(20250204), Day(99991231)}

TagQueries == {<<"bjj">>, <<"BJJ">>, <<"holiday", "other">>, <<"other">>}

\* every query of the read contract gives the same set of events on two stores
SameAnswers(A, B) ==
  /\ \A year \in Years \cup {NoArg}, tags \in TagQueries \cup {<<>>},
        include_archived \in BOOLEAN :
        Range(get_events(A.mem, year, NoArg, NoArg, tags, include_archived))
          = Range(get_events(B.mem, year, NoArg, NoArg, tags, include_archived))
  /\ \A start \in RangeBounds, end \in RangeBounds :
        Range(get_events_between(A.mem, start, end))
          = Range(get_events_between(B.mem, start, end))
  /\ \A period \in Periods, include_archived \in BOOLEAN, day \in ReferenceDays :
        Range(get_events_by_period(A, period, <<>>, include_archived, day).ret)
          = Range(get_events_by_period(B, period, <<>>, include_archived, day).ret)

\* C3: with compact_year / compact_outdated_shards calls inserted anywhere
\* among the writes, get_events, get_events_between and get_events_by_period
\* return the same events as for the same writes without compaction (the
\* shadow store), on the running store and on stores restarted from the two
\* directories.
C3_CompactionPreservesQueries ==
  /\ SameAnswers(Store, shadow)
  /\ SameAnswers(NewManager(Disk), NewManager(shadow.disk))

\* C4: get_events_between(a, b) returns exactly the stored events whose date
\* d satisfies a <= d <= b, each once, in ascending date order.
C4_RangeCorrectness ==
  \A start \in RangeBounds, end \in RangeBounds :
    LET result == get_events_between(Mem, start, end)
    IN  /\ Range(result)
             = { events_by_id[id] : id \in
                   { i \in StoredIds : /\ start <= events_by_id[i].date
                                       /\ events_by_id[i].date <= end } }
        /\ \A i \in 1 .. Len(result), j \in 1 .. Len(result) :
              /\ (i # j => result[i].id # result[j].id)
              /\ (i < j => result[i].date <= result[j].date)

\* two events are stored, one archived, and some range holds one but not both
C4_Witness ==
  /\ Cardinality(StoredIds) >= 2
  /\ \E id \in StoredIds : events_by_id[id].archived
  /\ \E start \in RangeBounds, end \in RangeBounds :
        Len(get_events_between(Mem, start, end)) = 1

EqualIgnoringCase(a, b) == Lower(a) = Lower(b)

\* C5: for a non-empty tag list T, get_events(tags=T, include_archived=f)
\* returns exactly the stored events carrying a tag equal, ignoring case, to a
\* member of T, without the archived ones when f is false.
C5_TagUnion ==
  \A tags \in TagQueries, include_archived \in BOOLEAN :
    Range(get_events(Mem, NoArg, NoArg, NoArg, tags, include_archived))
      = { events_by_id[id] : id \in
            { i \in StoredIds :
                /\ \E t \in Range(events_by_id[i].tags), q \in Range(tags) :
                      EqualIgnoringCase(t, q)
                /\ (include_archived \/ ~events_by_id[i].archived) } }

\* a tagged archived event and an untagged event are stored, and a query by
\* a differently cased tag finds the archived one only when asked to
C5_Witness ==
  /\ \E id \in StoredIds : events_by_id[id].tags = <<>>
  /\ \E id \in StoredIds :
        /\ events_by_id[id].archived
        /\ "BJJ" \in Range(events_by_id[id].tags)
        /\ events_by_id[id] \in
             Range(get_events(Mem, NoArg, NoArg, NoArg, <<"bjj">>, TRUE))
        /\ events_by_id[id] \notin
             Range(get_events(Mem, NoArg, NoArg, NoArg, <<"bjj">>, FALSE))

\* get_events() and get_events(include_archived=True)
LiveEvents == Range(get_events(Mem, NoArg, NoArg, NoArg, <<>>, FALSE))

AllEvents == Range(get_events(Mem, NoArg, NoArg, NoArg, <<>>, TRUE))

\* C6: after correct_event(id, r) on a stored id, the original is archived
\* and returned by get_events(include_archived=True), and the replacement is
\* returned by get_events().
C6_ArchiveCorrect ==
  (call.op = "correct_event" /\ ret # None /\ ret # Raised) =>
    /\ call.event_id \in StoredIds
    /\ events_by_id[call.event_id].archived
    /\ events_by_id[call.event_id] \in AllEvents
    /\ ret \in LiveEvents

\* C7: archive_event(id) and correct_event(id, r) on an id that was never
\* stored return None and leave the in-memory events, every index, both
\* caches and every file as they were.
C7_NotFoundIsAValue ==
  \A event_id \in (Ids \cup {ProbeId1}) \ (StoredIds \cup DiskIds(Disk)) :
    /\ archive_event(Store, event_id) = { [store |-> Store, ret |-> None] }
    /\ \A r \in EventInputs :
          correct_event(Store, event_id, WithId(r, ProbeId2))
            = { [store |-> Store, ret |-> None] }

\* a store holding an event was just asked to correct an id it never held
C7_Witness ==
  /\ call.op = "correct_event"
  /\ ret = None
  /\ StoredIds # {}
  /\ call.event_id \notin StoredIds \cup DiskIds(Disk)

\* C8: when add_event stores a new event, load_year of the event's year
\* returns a record with its id and title.
C8_StoredWriteReadable ==
  (call.op = "add_event" /\ ret.id = call.event_id) =>
    \E item \in Range(load_year(Disk, YearOf(ret.date)).events) :
       /\ item.id = ret.id
       /\ item.title = ret.title

\* the last call stored or archived something
SuccessfulWrite ==
  \/ call.op = "add_event" /\ ret.id = call.event_id
  \/ call.op \in {"archive_event", "correct_event"} /\ ret # None

IdsOfEvents(events) == [i \in 1 .. Len(events) |-> events[i].id]

\* C9: get_events_by_period(p, reference_date=d, include_archived=f) without
\* tags returns the id list that an uncached evaluation of the window gives
\* on the current store, and right after a successful write the period cache
\* and the memoised range lookup are both empty.
C9_CacheNeverStale ==
  /\ \A period \in Periods, include_archived \in BOOLEAN, day \in ReferenceDays :
        LET range == _resolve_period_range(period, day)
            returned == get_events_by_period(Store, period, <<>>,
                                             include_archived, day).ret
            fresh == PeriodIds(Mem, range[1], range[2], include_archived)
        IN  /\ IdsOfEvents(returned) = fresh
            /\ returned = EventsOf(Mem, fresh)
  /\ SuccessfulWrite => (period_cache = EmptyCache /\ period_memo = EmptyCache)

\* a period query has just been answered and cached, over a store to which
\* two events were written and in which one was archived
C9_Witness ==
  /\ call.op = "get_events_by_period"
  /\ Cardinality(StoredIds) >= 2
  /\ \E id \in StoredIds : events_by_id[id].archived
  /\ \E key \in DOMAIN period_cache : 2 \in Range(period_cache[key])
  /\ Cardinality(DOMAIN period_cache) >= 2

Payload(event) ==
  [date |-> event.date, title |-> event.title, type |-> event.type,
   details |-> event.details, tags |-> event.tags, source |-> event.source,
   metadata |-> event.metadata]

\* the record a later state holds under the id of item is item, but for an
\* archived flag that may have gone from false to true
SameButArchived(item, later) ==
  /\ Payload(later) = Payload(item)
  /\ item.archived => later.archived

\* C10: in every step, the date, title, type, details, tags, source and
\* metadata of the record held under a stored id, in memory and in its shard
\* file, stay as they are, and archived changes only from false to true.
C10_PayloadImmutable ==
  [][ /\ \A id \in DOMAIN events_by_id :
           id \in DOMAIN events_by_id' =>
             SameButArchived(events_by_id[id], events_by_id'[id])
      /\ \A year \in Years :
           \A item \in Range(raw_files[year].data) :
             \A later \in Range(raw_files'[year].data) :
               later.id = item.id => SameButArchived(item, later) ]_vars

\* a correction has archived the original and stored its replacement
C10_Witness ==
  /\ call.op = "correct_event"
  /\ ret # None
  /\ ret.id \in StoredIds
  /\ events_by_id[call.event_id].archived
  /\ Payload(events_by_id[call.event_id]) # Payload(ret)

\* the ids recorded in {year}.json or {year}.compact.json
YearFileIds(D, year) ==
  { D.raw[year].data[i].id : i \in 1 .. Len(D.raw[year].data) }
    \cup { D.compact[year].data[i].id : i \in 1 .. Len(D.compact[year].data) }

\* C11: events are never physically deleted: no add_event, archive_event,
\* correct_event, compact_year or compact_outdated_shards call removes an id
\* from the in-memory store or from the files of its year partition.
C11_NeverDeleted ==
  [][call'.op # "restart" =>
       /\ StoredIds \subseteq DOMAIN events_by_id'
       /\ \A year \in Years :
             YearFileIds(Disk, year) \subseteq
               YearFileIds([raw |-> raw_files', compact |-> compact_files'], year)]_vars

\* C12: for every id held by the store, archive_event(id) returns that event
\* with archived set, sets archived in the stored copy of the partition and
\* in the in-memory record, get_events() no longer returns it, and a second
\* archive_event(id) returns the same archived event.
C12_ArchiveFindsStored ==
  \A event_id \in StoredIds :
    \A first \in archive_event(Store, event_id) :
       /\ first.ret # None
       /\ first.ret.id = event_id
       /\ first.ret.archived
       /\ first.store.mem.events_by_id[event_id] = first.ret
       /\ \E item \in Range(load_year(first.store.disk,
                                        YearOf(first.ret.date)).events) :
             item.id = event_id /\ item.archived
       /\ first.ret \notin
            Range(get_events(first.store.mem, NoArg, NoArg, NoArg, <<>>, FALSE))
       /\ \A second \in archive_event(first.store, event_id) :
             second.ret = first.ret

\* the stored events that pass every filter that was supplied
Satisfying(year, start_date, end_date, tags, include_archived) ==
  { events_by_id[id] : id \in
      { i \in StoredIds :
          /\ year # NoArg => YearOf(events_by_id[i].date) = year
          /\ start_date # NoArg => start_date <= events_by_id[i].date
          /\ end_date # NoArg => events_by_id[i].date <= end_date
          /\ tags # <<>> =>
                \E t \in Range(tags), own \in Range(events_by_id[i].tags) :
                   EqualIgnoringCase(t, own)
          /\ ~include_archived => ~events_by_id[i].archived } }

\* C13: for every combination of year, start_date, end_date, tags and
\* include_archived, get_events returns exactly the stored events that
\* satisfy all the supplied filters at once.
C13_FiltersIntersect ==
  \A year \in Years \cup {NoArg},
     start_date \in {NoArg, Day(20250101)},
     end_date \in {NoArg, Day(20250204)},
     tags \in {<<>>, <<"bjj">>},
     include_archived \in BOOLEAN :
       Range(get_events(Mem, year, start_date, end_date, tags, include_archived))
         = Satisfying(year, start_date, end_date, tags, include_archived)

\* get_events composes every filter but the year with a date bound
FiltersIntersectWithoutYearAndBound ==
  \A year \in Years \cup {NoArg},
     start_date \in {NoArg, Day(20250101)},
     end_date \in {NoArg, Day(20250204)},
     tags \in {<<>>, <<"bjj">>},
     include_archived \in BOOLEAN :
       (year = NoArg \/ (start_date = NoArg /\ end_date = NoArg)) =>
         Range(get_events(Mem, year, start_date, end_date, tags, include_archived))
           = Satisfying(year, start_date, end_date, tags, include_archived)

\* the calendar day of an ISO-8601 day or day-and-time string
DayOfDate(date) == Day(date \div 10)

\* the non-archived stored events whose calendar day lies in [first, last]
LiveDatedIn(first, last) ==
  { events_by_id[id] : id \in
      { i \in StoredIds : /\ ~events_by_id[i].archived
                          /\ first <= DayOfDate(events_by_id[i].date)
                          /\ DayOfDate(events_by_id[i].date) <= last } }

\* C14: for a reference date d, last_7_days resolves to [d - 6 days, d] and
\* get_events_by_period returns exactly the non-archived events dated in
\* that window; with d = 2025-02-07 the window is [2025-02-01, 2025-02-07].
C14_Last7Days ==
  \A d \in ReferenceDays :
    /\ _resolve_period_range("last_7_days", d) = <<IsoFormat(d - 6), IsoFormat(d)>>
    /\ _resolve_period_range("last_7_days", 20126) = <<Day(20250201), Day(20250207)>>
    /\ Range(get_events_by_period(Store, "last_7_days", <<>>, FALSE, d).ret)
         = LiveDatedIn(IsoFormat(d - 6), IsoFormat(d))

\* the window is answered exactly when every stored date is a plain day
Last7DaysOverPlainDays ==
  \A d \in ReferenceDays :
    (\A id \in StoredIds : events_by_id[id].date = DayOfDate(events_by_id[id].date))
      => Range(get_events_by_period(Store, "last_7_days", <<>>, FALSE, d).ret)
           = LiveDatedIn(IsoFormat(d - 6), IsoFormat(d))

\* C15: get_events_by_period with a period name outside the four supported
\* ones raises, whatever the cache holds and whatever tags are passed, and
\* leaves the store, the files and both caches as they were.
C15_UnsupportedPeriodRaises ==
  \A period \in UnsupportedPeriods, tags \in QueryTags \cup TagQueries,
     include_archived \in BOOLEAN, reference \in ReferenceDays :
       get_events_by_period(Store, period, tags, include_archived, reference)
         = [store |-> Store, ret |-> Raised]

\* an unsupported name has just been asked for, of a store that holds events
\* and whose cache holds answers of supported periods
C15_Witness ==
  /\ call.op = "get_events_by_period"
  /\ call.period \in UnsupportedPeriods
  /\ ret = Raised
  /\ StoredIds # {}
  /\ period_cache # EmptyCache

C17_ReturnsStoredEvent ==
  (call.op = "add_event" /\ ret # Raised) =>
    /\ ret.id \in StoredIds
    /\ events_by_id[ret.id] = ret
    /\ ret \in AllEvents

\* add_event has just answered a re-import with the stored event, which had
\* been archived since
C17_Witness ==
  /\ call.op = "add_event"
  /\ ret # Raised
  /\ ret.id # call.event_id
  /\ ret.archived
  /\ ret.id \in StoredIds

\* the values inserted under key, in the order of their inserts
Bucket(key) ==
  LET under(pair) == pair[1] = key
      pairs == SelectSeq(inserted, under)
  IN  [i \in 1 .. Len(pairs) |-> pairs[i][2]]

\* the buckets of the keys lo .. hi, in ascending key order
RECURSIVE BucketsFrom(_, _)
BucketsFrom(lo, hi) ==
  IF lo > hi THEN <<>> ELSE Bucket(lo) \o BucketsFrom(lo + 1, hi)

\* the values whose key lies between the bounds, an omitted bound being
\* unbounded
ValuesBetween(start, end) ==
  BucketsFrom(IF start = NoArg THEN 1 ELSE start,
              IF end = NoArg THEN MaxKey ELSE end)

DistinctKeys ==
  \A i \in 1 .. Len(inserted), j \in 1 .. Len(inserted) :
     i # j => inserted[i][1] # inserted[j][1]

\* C18: for every order >= 3 and every sequence of inserts with distinct
\* keys, range_query(None, None) returns every inserted value once, in
\* ascending key order, whatever splits occurred.
C18_SplitCorrectness ==
  DistinctKeys => range_query(Tree, NoArg, NoArg) = BucketsFrom(1, MaxKey)

\* C19: after any inserts, search(k) returns the whole bucket of values
\* inserted under k, and the empty list when k was never inserted.
C19_ExactLookup ==
  \A key \in TreeKeys \cup {MaxKey + 1} : search(Tree, key) = Bucket(key)

\* C20: after any inserts, range_query(start, end) returns exactly the
\* values whose key k has start <= k <= end, in ascending key order, an
\* omitted bound being unbounded.
C20_BoundedRange ==
  \A start \in TreeKeys \cup {NoArg}, end \in TreeKeys \cup {NoArg} :
     range_query(Tree, start, end) = ValuesBetween(start, end)

\* as long as the root is a leaf, the three answers are the expected ones
AnswersBeforeFirstSplit ==
  nodes[root].leaf =>
    /\ range_query(Tree, NoArg, NoArg) = BucketsFrom(1, MaxKey)
    /\ \A key \in TreeKeys \cup {MaxKey + 1} : search(Tree, key) = Bucket(key)
    /\ \A start \in TreeKeys \cup {NoArg}, end \in TreeKeys \cup {NoArg} :
          range_query(Tree, start, end) = ValuesBetween(start, end)

\* the prefixes asked for: every month that some key can have, and every key
Prefixes == { (key \div 1000) * 1000 : key \in StringKeys } \cup StringKeys

\* the buckets of the keys of a set, in ascending key order
RECURSIVE BucketsOf(_)
BucketsOf(keys) ==
  IF keys = {}
    THEN <<>>
    ELSE LET least == CHOOSE k \in keys : \A other \in keys : k <= other
         IN  Bucket(least) \o BucketsOf(keys \ {least})

\* C21: after any inserts with string keys, prefix_query(p) returns exactly
\* the values whose key starts with p, and equals
\* range_query(p, p + max_sentinel).
C21_PrefixQuery ==
  \A prefix \in Prefixes :
    /\ prefix_query(Tree, prefix)
         = BucketsOf({ key \in StringKeys : StartsWith(key, prefix) })
    /\ prefix_query(Tree, prefix)
         = range_query(Tree, prefix, WithSentinel(prefix))

\* the entries (leaf, position) of the tree that hold key
LeafEntries(key) ==
  { entry \in (1 .. Len(nodes)) \X (1 .. MaxInserts) :
      /\ nodes[entry[1]].leaf
      /\ entry[2] <= Len(nodes[entry[1]].keys)
      /\ nodes[entry[1]].keys[entry[2]] = key }

\* C22: after any inserts every inserted key has exactly one leaf entry in
\* the whole tree, whose bucket holds the values inserted under the key in
\* insertion order; a key never inserted has none.
C22_OneBucketPerKey ==
  \A key \in TreeKeys :
    IF Bucket(key) = <<>>
      THEN LeafEntries(key) = {}
      ELSE /\ Cardinality(LeafEntries(key)) = 1
           /\ \A entry \in LeafEntries(key) :
                 nodes[entry[1]].children[entry[2]] = Bucket(key)

\* the value of the last insert of key
LastValue(key) ==
  LET under(pair) == pair[1] = key
      pairs == SelectSeq(skip_inserted, under)
  IN  IF pairs = <<>> THEN None ELSE pairs[Len(pairs)][2]

SkipInsertedKeys == { skip_inserted[i][1] : i \in 1 .. Len(skip_inserted) }

\* the current values of a set of keys, in ascending key order
RECURSIVE CurrentValues(_)
CurrentValues(keys) ==
  IF keys = {}
    THEN <<>>
    ELSE LET least == CHOOSE k \in keys : \A other \in keys : k <= other
         IN  <<LastValue(least)>> \o CurrentValues(keys \ {least})

\* C23: for every choice of tower heights and every sequence of inserts,
\* SkipList.range_query(start, end) returns exactly the current values of
\* the keys k with start <= k <= end, in ascending key order, an omitted
\* bound being unbounded.
C23_SkipRangeQuery ==
  \A start \in SkipKeys \cup {NoArg}, end \in SkipKeys \cup {NoArg} :
     skip_range_query(skiplist, start, end)
       = CurrentValues({ k \in SkipInsertedKeys :
                           /\ start # NoArg => start <= k
                           /\ end # NoArg => k <= end })

\* four keys were inserted out of order with towers of different heights,
\* and a query bounded on both sides leaves a key out at each end
C23_Witness ==
  /\ skiplist.size = 4
  /\ skiplist.level = MaxLevel - 1
  /\ skip_inserted[1][1] > skip_inserted[2][1]
  /\ \E n \in 2 .. Len(skiplist.nodes) : Len(skiplist.nodes[n].forward) = 1
  /\ Len(skip_range_query(skiplist, 2, 3)) = 2

\* C24: after any inserts, search(k) returns the value of the most recent
\* insert(k, v), or None if k was never inserted; each key is in exactly one
\* node; len is the number of distinct keys inserted.
C24_LastWriteWins ==
  /\ \A key \in SkipKeys \cup {MaxSkipKey + 1} :
        skip_search(skiplist, key) = LastValue(key)
  /\ \A key \in SkipKeys :
        Cardinality({ n \in 2 .. Len(skiplist.nodes) : skiplist.nodes[n].key = key })
          = IF key \in SkipInsertedKeys THEN 1 ELSE 0
  /\ skip_len(skiplist) = Cardinality(SkipInsertedKeys)
  /\ Len(SkipItemsFrom(skiplist.nodes, skiplist.nodes[1].forward[1]))
       = Cardinality(SkipInsertedKeys)

\* a key was inserted again after other keys, and the list did not grow
C24_Witness ==
  /\ Len(skip_inserted) = MaxSkipInserts
  /\ skip_inserted[1][1] = skip_inserted[Len(skip_inserted)][1]
  /\ skiplist.size = 3
  /\ skip_search(skiplist, skip_inserted[1][1]) = Len(skip_inserted)

\* the membership sets, frequency counters and co-occurrence counts of two
\* dictionaries are the same
SameTagState(A, B) ==
  /\ \A tag \in LowerTags \cup {"training"} :
        /\ tag_get(A, tag) = tag_get(B, tag)
        /\ (tag \in DOMAIN A.tag_map) = (tag \in DOMAIN B.tag_map)
        /\ (IF tag \in DOMAIN A.tag_freq THEN A.tag_freq[tag] ELSE 0)
             = (IF tag \in DOMAIN B.tag_freq THEN B.tag_freq[tag] ELSE 0)
        /\ \A other \in LowerTags \cup {"training"} :
              CounterGet(IF tag \in DOMAIN A.tag_cooccurrence_map
                           THEN A.tag_cooccurrence_map[tag] ELSE <<>>, other)
                = CounterGet(IF tag \in DOMAIN B.tag_cooccurrence_map
                               THEN B.tag_cooccurrence_map[tag] ELSE <<>>, other)

\* no two tags of the list are equal ignoring case
NoRepeatedTag(tags) ==
  \A i \in 1 .. Len(tags), j \in 1 .. Len(tags) :
     i # j => Lower(tags[i]) # Lower(tags[j])

\* C25: from any reachable TagDictionary state, add(e, T) followed by
\* remove(e, T) restores the membership sets, the frequency counters and
\* every co-occurrence counter (stated here for an event e that holds no tag
\* yet and a list T without repeated tags).
C25_RemoveInvertsAdd ==
  \A event_id \in TagEventIds, tags \in TagLists :
    (NoRepeatedTag(tags) /\ \A pair \in tag_held : pair[1] # event_id)
      => SameTagState(tag_remove(tag_add(tagdict, event_id, tags), event_id, tags),
                      tagdict)

\* remove undoes an add of tags that differ ignoring case on a dictionary
\* in which no tag of the list is held by any event
RemoveInvertsAddOfNewTags ==
  \A event_id \in TagEventIds, tags \in TagLists :
    (/\ NoRepeatedTag(tags)
     /\ \A i \in 1 .. Len(tags) :
           /\ Lower(tags[i]) \notin DOMAIN tagdict.tag_map
           /\ \A tag \in DOMAIN tagdict.tag_cooccurrence_map :
                 CounterGet(tagdict.tag_cooccurrence_map[tag], Lower(tags[i])) = 0)
    => SameTagState(tag_remove(tag_add(tagdict, event_id, tags), event_id, tags),
                    tagdict)

DictTags == LowerTags \cup {"training"}

\* the events that hold a tag
Holders(tag) == { pair[1] : pair \in { p \in tag_held : p[2] = tag } }

\* the count stored for (tag, other) in the co-occurrence map
Cooccurrence(tag, other) ==
  IF tag \in DOMAIN tagdict.tag_cooccurrence_map
    THEN CounterGet(tagdict.tag_cooccurrence_map[tag], other)
    ELSE 0

\* C26: after any add and remove calls, the frequency counter of every tag
\* equals the number of event ids in its membership set, the co-occurrence
\* count of every pair of tags equals the number of events holding both,
\* and a tag with no events has no membership set, frequency entry or
\* co-occurrence entry.
C26_CountersConsistent ==
  \A tag \in DictTags :
    /\ (IF tag \in DOMAIN tagdict.tag_freq THEN tagdict.tag_freq[tag] ELSE 0)
         = Cardinality(tag_get(tagdict, tag))
    /\ \A other \in DictTags \ {tag} :
          Cooccurrence(tag, other) = Cardinality(Holders(tag) \cap Holders(other))
    /\ Holders(tag) = {} =>
          /\ tag \notin DOMAIN tagdict.tag_map
          /\ tag \notin DOMAIN tagdict.tag_freq
          /\ tag \notin DOMAIN tagdict.tag_cooccurrence_map
          /\ \A other \in DictTags : Cooccurrence(other, tag) = 0

\* the counters agree with the membership as long as nothing was removed
\* and no event was given a tag it already held
CountersConsistentAfterFirstAdds ==
  (/\ Cardinality(tag_held)
        = (IF "bjj" \in DOMAIN tagdict.tag_freq THEN tagdict.tag_freq["bjj"] ELSE 0)
        + (IF "holiday" \in DOMAIN tagdict.tag_freq
             THEN tagdict.tag_freq["holiday"] ELSE 0)
        + (IF "training" \in DOMAIN tagdict.tag_freq
             THEN tagdict.tag_freq["training"] ELSE 0))
    => \A tag \in DictTags :
         (IF tag \in DOMAIN tagdict.tag_freq THEN tagdict.tag_freq[tag] ELSE 0)
           = Cardinality(tag_get(tagdict, tag))

\* C27: after any add and remove calls, get(t) returns exactly the event
\* ids added with a tag equal to t ignoring case and not removed for that
\* tag since.
C27_MembershipExact ==
  \A tag \in DictTags \cup {"BJJ", "other"} :
     tag_get(tagdict, tag) = Holders(Lower(tag))

\* two events were given a tag in different case, one of them lost it
\* again, and get of the upper-case tag returns the other
C27_Witness ==
  /\ tag_ops >= 3
  /\ Cardinality(tag_get(tagdict, "BJJ")) = 1
  /\ tagdict.tag_freq["bjj"] = 1
  /\ \E event_id \in TagEventIds :
        /\ <<event_id, "bjj">> \notin tag_held
        /\ <<event_id, "holiday">> \in tag_held

\* the sum over the input tags of the stored co-occurrence counts with tag
RECURSIVE ScoreOf(_, _, _)
ScoreOf(tag, tags, i) ==
  IF i > Len(tags)
    THEN 0
    ELSE Cooccurrence(Lower(tags[i]), tag) + ScoreOf(tag, tags, i + 1)

RelatedInputs == TagLists \cup { <<"bjj">>, <<"BJJ", "other">> }

Limits == 0 .. 3

\* C28: related_tags(tags, n) returns at most n tags, none of them an input
\* tag ignoring case, in non-increasing order of the sum of their
\* co-occurrence counts with the input tags, and every tag that co-occurs
\* with an input is returned when n is large enough.
C28_RelatedTags ==
  \A tags \in RelatedInputs, limit \in Limits :
    LET related == related_tags(tagdict, tags, limit)
        inputs == { Lower(tags[i]) : i \in 1 .. Len(tags) }
        candidates == { tag \in DictTags \ inputs : ScoreOf(tag, tags, 1) > 0 }
    IN  /\ Len(related) <= limit
        /\ \A i \in 1 .. Len(related) : related[i] \notin inputs
        /\ \A i \in 1 .. Len(related), j \in 1 .. Len(related) :
              /\ i < j => ScoreOf(related[i], tags, 1) >= ScoreOf(related[j], tags, 1)
              /\ i # j => related[i] # related[j]
        /\ Range(related) \subseteq candidates
        /\ limit >= Cardinality(candidates) => Range(related) = candidates
        /\ \A tag \in candidates \ Range(related), i \in 1 .. Len(related) :
              ScoreOf(tag, tags, 1) <= ScoreOf(related[i], tags, 1)

\* the row of "bjj" lists "training" before "holiday", "holiday" has the
\* higher count, and related_tags puts it first and alone for n = 1
C28_Witness ==
  /\ "bjj" \in DOMAIN tagdict.tag_cooccurrence_map
  /\ tagdict.tag_cooccurrence_map["bjj"][1][1] = "training"
  /\ related_tags(tagdict, <<"BJJ">>, 3) = <<"holiday", "training">>
  /\ related_tags(tagdict, <<"BJJ">>, 1) = <<"holiday">>

CachedKeys(C) == { C._data[i][1] : i \in 1 .. Len(C._data) }

\* the cached key whose last put or successful get is the oldest
LeastRecentlyUsed(C) ==
  CHOOSE old \in CachedKeys(C) :
    \A other \in CachedKeys(C) \ {old} : last_use[old] < last_use[other]

\* C29: a SemanticCache of capacity c >= 1 holds at most c keys, a put of a
\* new key at capacity removes exactly the key whose last successful get or
\* put is the oldest, and a put of an existing key or a get removes no key.
C29_StrictLRU ==
  /\ cache_len(semantic_cache) <= semantic_cache.capacity
  /\ Cardinality(CachedKeys(semantic_cache)) = cache_len(semantic_cache)
  /\ \A key \in CachedKeys(semantic_cache), other \in CachedKeys(semantic_cache) :
        key # other => last_use[key] # last_use[other]
  /\ \A key \in CacheKeys :
        /\ CachedKeys(cache_get(semantic_cache, key).cache)
             = CachedKeys(semantic_cache)
        /\ \A value \in CacheValues :
             LET after == cache_put(semantic_cache, key, value)
             IN  /\ CacheValue(after, key) = value
                 /\ CachedKeys(after) =
                      IF key \in CachedKeys(semantic_cache)
                           \/ cache_len(semantic_cache) < semantic_cache.capacity
                        THEN CachedKeys(semantic_cache) \cup {key}
                        ELSE (CachedKeys(semantic_cache)
                                \ {LeastRecentlyUsed(semantic_cache)}) \cup {key}

\* the calls of test_semantic_cache_lru_behavior: "a" was put first and read
\* again before the put of "c", which removed "b"
C29_Witness ==
  /\ semantic_cache.capacity = 2
  /\ cache_log = << <<"put", "a">>, <<"put", "b">>, <<"get", "a">>, <<"put", "c">> >>
  /\ CachedKeys(semantic_cache) = {"a", "c"}

\* what get_events_by_period without tags returns on the in-memory state M
PeriodEvents(M, period, include_archived, reference) ==
  LET range == _resolve_period_range(period, reference)
  IN  EventsOf(M, PeriodIds(M, range[1], range[2], include_archived))

\* the result of the last query is the one it gives on the state before or
\* on the state after the last write begun
ReadIsBeforeOrAfter ==
  /\ call.op = "get_events_between" =>
        ret \in { get_events_between(mem_before, call.start, call.end),
                  get_events_between(mem_after, call.start, call.end) }
  /\ call.op = "get_events" =>
        ret \in { get_events(mem_before, call.year, NoArg, NoArg, call.tags, FALSE),
                  get_events(mem_after, call.year, NoArg, NoArg, call.tags, FALSE) }
  /\ call.op = "get_events_by_period" =>
        ret \in { PeriodEvents(mem_before, call.period, call.include_archived,
                               call.reference),
                  PeriodEvents(mem_after, call.period, call.include_archived,
                               call.reference) }

\* with no call in progress, every entry of the period cache is what the
\* window gives on the current state
NoStaleEntryLeft ==
  (writer.pc = "idle" /\ reader.pc = "idle") =>
    \A period \in ThreadPeriods, include_archived \in BOOLEAN,
       reference \in ReferenceDays :
      LET cache_key == <<period, IsoFormat(reference), include_archived>>
          range == _resolve_period_range(period, reference)
      IN  cache_key \in DOMAIN period_cache =>
            period_cache[cache_key]
              = PeriodIds(Mem, range[1], range[2], include_archived)

\* C30: when one add_event or archive_event runs concurrently with
\* get_events, get_events_between or get_events_by_period, every read
\* returns the result it gives on the state entirely before or entirely
\* after that write, and no result computed before the write is left in the
\* period cache after the write completes.
C30_ReadsSeeWholeWrites == ReadIsBeforeOrAfter /\ NoStaleEntryLeft

\* the same holds as long as no query has shared time with a write
WholeWritesWhenSerialized == ~interleaved => C30_ReadsSeeWholeWrites

\* the replacement r as correct_event is to return and store it
AsGiven(r) ==
  [r EXCEPT !.source = IF r.source = "" THEN "correction" ELSE r.source]

\* C31: when correct_event(id, r) succeeds, the event it returns and stores
\* has source "correction" if r.source is empty and r.source otherwise, and
\* every other field (id, date, title, type, details, tags, archived,
\* metadata) equal to r's.
C31_ReplacementAsGiven ==
  \A event_id \in Ids, payload \in EventInputs :
    LET r == WithId(payload, ProbeId1)
    IN  \A result \in correct_event(Store, event_id, r) :
          (result.ret # None /\ result.ret # Raised) =>
            /\ result.ret = AsGiven(r)
            /\ r.id \in DOMAIN result.store.mem.events_by_id
            /\ result.store.mem.events_by_id[r.id] = AsGiven(r)

\* the same for a replacement that names its source and whose date, title,
\* type and details are those of no stored event
ReplacementAsGivenWithSource ==
  \A event_id \in Ids, payload \in EventInputs :
    LET r == WithId(payload, ProbeId1)
    IN  (/\ r.source # ""
         /\ _compute_ingestion_hash(r) \notin DOMAIN index_by_hash)
          => \A result \in correct_event(Store, event_id, r) :
               (result.ret # None /\ result.ret # Raised) =>
                 /\ result.ret = AsGiven(r)
                 /\ r.id \in DOMAIN result.store.mem.events_by_id
                 /\ result.store.mem.events_by_id[r.id] = AsGiven(r)

\* the records of an id in the shard files
DiskRecords(id) ==
  UNION { { item \in Range(raw_files[y].data) \cup Range(compact_files[y].data) :
              item.id = id } : y \in Years }

\* the id is held in memory or by a partition file
Present(id) == id \in StoredIds \/ DiskRecords(id) # {}

\* the id is archived both in memory and on disk
ArchivedEverywhere(id) ==
  /\ id \in StoredIds
  /\ events_by_id[id].archived
  /\ DiskRecords(id) # {}
  /\ \A item \in DiskRecords(id) : item.archived

\* while correct_event runs, the replacement is present only once the
\* original is archived in memory and on disk
VisibleOnlyOnceArchived ==
  (writer.pc \in {"correct_saved", "correct_refreshed", "correct_archived",
                  "correct_added", "correct_indexed"}
     /\ Present(writer.corrected.id))
    => ArchivedEverywhere(writer.event.id)

\* after correct_event returned the replacement, the original is archived
\* and both are held in memory and by a partition file
BothPresentAfterwards ==
  (call.op = "correct_event" /\ writer.pc = "idle"
     /\ ret # None /\ ret # Raised)
    => /\ ArchivedEverywhere(call.event_id)
       /\ ret.id \in StoredIds
       /\ DiskRecords(ret.id) # {}

\* C32: in every state reachable during or after correct_event(id, r),
\* including the states between its internal steps, if r is present in the
\* in-memory store or in a partition file then the original is archived
\* both in memory and on disk, and after completion both the original and r
\* are physically present.
C32_CorrectionOrdering == VisibleOnlyOnceArchived /\ BothPresentAfterwards

\* compact_year(year) run now leaves in {year}.compact.json exactly the
\* records written to the year so far (those of the shadow store's shard,
\* which is never compacted), in ascending date order, and a second run
\* changes nothing
CompactsYear(year) ==
  LET compacted == compact_year(Disk, year)
      data == compacted.compact[year].data
      written == shadow.disk.raw[year].data
  IN  /\ compacted.compact[year].exists
      /\ Len(data) = Len(written)
      /\ Range(data) = Range(written)
      /\ \A i \in 1 .. Len(data), j \in 1 .. Len(data) :
            i < j => data[i].date <= data[j].date
      /\ compact_year(compacted, year) = compacted

\* C33: after compact_year(Y), whatever writes and earlier compactions
\* preceded it, Y.compact.json holds exactly the events (same ids, payloads
\* and archived flags) written to year Y's partition so far, sorted by
\* ascending date, and compact_year(Y) again with no write in between
\* leaves the file unchanged.
C33_CompactionPreservesContents == \A year \in Years : CompactsYear(year)

\* the same in a directory where nothing was compacted before
FirstCompactionPreservesContents ==
  (\A compacted \in Years : ~compact_files[compacted].exists)
    => \A year \in Years : CompactsYear(year)

\* add_event(e) skips the write exactly when a stored event has e's date,
\* title, type and details, and then returns such an event
DedupOf(payload) ==
  LET e == WithId(payload, ProbeId1)
      result == add_event(Store, e)
  IN  /\ (result.store = Store)
           <=> \E id \in StoredIds : SameContent(events_by_id[id], e)
      /\ result.store = Store => SameContent(result.ret, e)
      /\ result.store # Store =>
           /\ result.ret = e
           /\ e.id \in DOMAIN result.store.mem.events_by_id

\* C34: add_event treats a new event as a duplicate of a stored one, and
\* skips the write, only if their (date, title, type, details) tuples are
\* equal field by field; two events that differ in any of the four fields
\* are both stored, for all field values including ones containing "|".
C34_DuplicatesAreIdentical == \A payload \in DedupInputs : DedupOf(payload)

\* the same for new events without "|" in their fields
DuplicatesAreIdenticalWithoutSeparator ==
  \A payload \in { e \in DedupInputs : e.title = "Old" /\ e.details = "info" } :
     DedupOf(payload)

\* the leaves on the chain of next links from leaf n
RECURSIVE ChainFrom(_, _)
ChainFrom(n, left) ==
  IF n = 0 \/ left = 0 THEN {} ELSE {n} \cup ChainFrom(nodes[n].next, left - 1)

\* the nodes of the tree under node n, n included
RECURSIVE NodesUnder(_)
NodesUnder(n) ==
  IF nodes[n].leaf
    THEN {n}
    ELSE {n} \cup UNION { NodesUnder(nodes[n].children[i]) :
                            i \in 1 .. Len(nodes[n].children) }

Leaves == { n \in NodesUnder(root) : nodes[n].leaf }

\* the number of places of a list that hold value
Occurrences(list, value) ==
  Cardinality({ i \in 1 .. Len(list) : list[i] = value })

InsertedValues == [i \in 1 .. Len(inserted) |-> inserted[i][2]]

\* C35: after any sequence of inserts every leaf is reachable from the
\* leftmost leaf through next links, and the multiset of values found by
\* walking that chain, which is iteration, equals the multiset of values
\* inserted: no value is lost or duplicated by splits.
C35_NoValueLostOrDuplicated ==
  /\ Leaves = ChainFrom(Leftmost(nodes, root), Len(nodes))
  /\ Len(tree_iter(Tree)) = Len(inserted)
  /\ \A value \in 1 .. MaxInserts + 1 :
        Occurrences(tree_iter(Tree), value) = Occurrences(InsertedValues, value)

\* an internal node below the root has been split off, and a leaf other
\* than the last of the chain holds several keys
C35_Witness ==
  /\ \E n \in NodesUnder(root) : n # root /\ ~nodes[n].leaf
  /\ Cardinality(Leaves) >= 4
  /\ Len(inserted) = MaxInserts

\* the depths at which the leaves under node n of heap H lie, n being at
\* depth
RECURSIVE LeafDepths(_, _, _)
LeafDepths(H, n, depth) ==
  IF H[n].leaf
    THEN {depth}
    ELSE UNION { LeafDepths(H, H[n].children[i], depth + 1) :
                   i \in 1 .. Len(H[n].children) }

\* the number of nodes on the way from the root to the leftmost leaf
RECURSIVE HeightFrom(_, _)
HeightFrom(H, n) == IF H[n].leaf THEN 1 ELSE 1 + HeightFrom(H, H[n].children[1])

LeavesAtOneDepth == Cardinality(LeafDepths(nodes, root, 0)) = 1

OneMoreChildThanKeys ==
  \A n \in NodesUnder(root) :
     ~nodes[n].leaf => Len(nodes[n].children) = Len(nodes[n].keys) + 1

FewerKeysThanOrder == \A n \in NodesUnder(root) : Len(nodes[n].keys) < order

\* one insert raises the height by one when it replaces the root and leaves
\* it alone otherwise
HeightStep ==
  HeightFrom(nodes', root') = HeightFrom(nodes, root) + (IF root' # root THEN 1 ELSE 0)

\* C36: once insert returns, all leaves are at the same depth, every
\* internal node has exactly one more child than keys, and no node holds
\* order or more keys; one insert raises the height by exactly one when the
\* root splits and by zero otherwise.
C36_TreeShape ==
  /\ [](LeavesAtOneDepth /\ OneMoreChildThanKeys /\ FewerKeysThanOrder)
  /\ [][HeightStep]_vars

\* the same without the count of children
TreeShapeButFanout ==
  /\ [](LeavesAtOneDepth /\ FewerKeysThanOrder)
  /\ [][HeightStep]_vars

\* every internal node that no split has cut has one more child than keys
OneMoreChildThanKeysAtRoot ==
  ~nodes[root].leaf => Len(nodes[root].children) = Len(nodes[root].keys) + 1

\* reference dates asked about: 2025-01-31, 2025-02-07 and 2025-03-09
WindowDays == {20119, 20126, 20156}

\* the first day of the window that period names, for the reference day d
WindowStart(period, d) ==
  CASE period = "last_30_days" -> IsoFormat(d - 29)
    [] period = "last_3_months" -> IsoFormat(d - 90)
    [] period = "this_year" -> Day(YearOf(IsoFormat(d)) * 10000 + 101)

LongPeriods == {"last_30_days", "last_3_months", "this_year"}

HoldsOneOf(event, tags) ==
  \E t \in Range(tags), own \in Range(event.tags) : EqualIgnoringCase(t, own)

\* the window that period resolves to ends at the reference day
WindowEndsAtReference(period, d) ==
  _resolve_period_range(period, d) = <<WindowStart(period, d), IsoFormat(d)>>

\* no event dated after the reference day is returned, and the answer with
\* tags is the answer without tags filtered by the tags
WindowAnswersAgree(period, d) ==
  LET plain == get_events_by_period(Store, period, <<>>, FALSE, d).ret
  IN  /\ \A i \in 1 .. Len(plain) : DayOfDate(plain[i].date) <= IsoFormat(d)
      /\ \A tags \in QueryTags \ {<<>>} :
            LET holds(event) == HoldsOneOf(event, tags)
            IN  get_events_by_period(Store, period, tags, FALSE, d).ret
                  = SelectSeq(plain, holds)

\* the answer is exactly the non-archived events dated inside the window
WindowAnswerExact(period, d) ==
  Range(get_events_by_period(Store, period, <<>>, FALSE, d).ret)
    = LiveDatedIn(WindowStart(period, d), IsoFormat(d))

\* C37: for a reference date d, last_30_days resolves to [d - 29 days, d],
\* last_3_months to [d - 90 days, d] and this_year to [January 1 of d's
\* year, d]; get_events_by_period returns exactly the non-archived events
\* dated inside the resolved window, so no event dated after d is returned,
\* and the result with tags equals the result without tags filtered to the
\* events holding one of the tags.
C37_WindowsEndAtReference ==
  \A period \in LongPeriods, d \in WindowDays :
     /\ WindowEndsAtReference(period, d)
     /\ WindowAnswerExact(period, d)
     /\ WindowAnswersAgree(period, d)

\* the same, the answer being exact when every stored date is a plain day
WindowsEndAtReferenceOverPlainDays ==
  \A period \in LongPeriods, d \in WindowDays :
     /\ WindowEndsAtReference(period, d)
     /\ WindowAnswersAgree(period, d)
     /\ (\A id \in StoredIds : events_by_id[id].date = DayOfDate(events_by_id[id].date))
          => WindowAnswerExact(period, d)

\* C38: in every state reachable by add_event, archive_event and
\* correct_event, sorted_dates is non-decreasing, sorted_dates and
\* sorted_event_ids have equal length, sorted_dates[i] is the date of the
\* event stored under sorted_event_ids[i], every stored id occurs exactly
\* once in sorted_event_ids, and events with equal dates appear in the
\* order in which they were added (ids are handed out in ascending order).
C38_PositionalAlignment ==
  /\ Len(sorted_dates) = Len(sorted_event_ids)
  /\ \A i \in 1 .. Len(sorted_dates) - 1 : sorted_dates[i] <= sorted_dates[i + 1]
  /\ \A i \in 1 .. Len(sorted_event_ids) :
        /\ sorted_event_ids[i] \in StoredIds
        /\ sorted_dates[i] = events_by_id[sorted_event_ids[i]].date
  /\ \A id \in StoredIds :
        Cardinality({ i \in 1 .. Len(sorted_event_ids) : sorted_event_ids[i] = id }) = 1
  /\ \A i \in 1 .. Len(sorted_event_ids), j \in 1 .. Len(sorted_event_ids) :
        (i < j /\ sorted_dates[i] = sorted_dates[j])
          => sorted_event_ids[i] < sorted_event_ids[j]

\* correct_event has just stored a replacement that has the date of the
\* event it replaces, which is now archived
C38_Witness ==
  /\ call.op = "correct_event"
  /\ Len(sorted_dates) = 2
  /\ sorted_dates[1] = sorted_dates[2]
  /\ events_by_id[sorted_event_ids[1]].archived
  /\ ~events_by_id[sorted_event_ids[2]].archived

\* the outcomes of correct_event(id, r) that raise, r having an unparsable
\* date
FailedCorrections(id) ==
  { result \in UNION { correct_event(Store, id, WithId(payload, ProbeId1)) :
                         payload \in MalformedInputs } : result.ret = Raised }

FailedCorrectionStoresNoReplacement ==
  \A id \in Ids : \A result \in FailedCorrections(id) :
     /\ DOMAIN result.store.mem.events_by_id = StoredIds
     /\ DiskIds(result.store.disk) = DiskIds(Store.disk)
     /\ \A other \in StoredIds \ {id} :
           result.store.mem.events_by_id[other] = events_by_id[other]
     /\ result.store.mem.events_by_id[id] = [events_by_id[id] EXCEPT !.archived = TRUE]

\* the nodes on the chain of forward[i] links from node n, as a list; a
\* chain is followed for at most as many steps as the heap has nodes
RECURSIVE SkipChainFrom(_, _, _)
SkipChainFrom(n, i, left) ==
  IF n = 0 \/ left = 0
    THEN <<>>
    ELSE <<n>> \o SkipChainFrom(IF i + 1 <= Len(skiplist.nodes[n].forward)
                                  THEN skiplist.nodes[n].forward[i + 1] ELSE 0,
                                i, left - 1)

\* the chain at level i, after the header
SkipChain(i) ==
  SkipChainFrom(skiplist.nodes[1].forward[i + 1], i, Len(skiplist.nodes))

\* list a is list b with some places left out
RECURSIVE IsSubsequence(_, _)
IsSubsequence(a, b) ==
  IF a = <<>>
    THEN TRUE
    ELSE IF b = <<>>
           THEN FALSE
           ELSE IF Head(a) = Head(b)
                  THEN IsSubsequence(Tail(a), Tail(b))
                  ELSE IsSubsequence(a, Tail(b))

\* C40: the level-0 chain holds the keys in strictly ascending order, the
\* chain at level i + 1 is a subsequence of the chain at level i, the
\* list's current level never exceeds max_level - 1, and size equals the
\* number of nodes on the level-0 chain.
C40_SkipListStructure ==
  /\ \A p \in 1 .. Len(SkipChain(0)) - 1 :
        skiplist.nodes[SkipChain(0)[p]].key < skiplist.nodes[SkipChain(0)[p + 1]].key
  /\ \A i \in 0 .. skiplist.max_level - 2 :
        IsSubsequence(SkipChain(i + 1), SkipChain(i))
  /\ skiplist.level <= skiplist.max_level - 1
  /\ skiplist.size = Len(SkipChain(0))

\* towers of every height stand in the list, so each chain is shorter than
\* the one below it, and the tallest tower is not the first node
C40_Witness ==
  /\ skiplist.level = MaxLevel - 1
  /\ Len(SkipChain(2)) >= 1
  /\ Len(SkipChain(2)) < Len(SkipChain(1))
  /\ Len(SkipChain(1)) < Len(SkipChain(0))
  /\ SkipChain(2)[1] # SkipChain(0)[1]
  /\ Len(skip_inserted) > skiplist.size

====
